---- MODULE Spec2Model ----
(***************************************************************************)
(* Model of the retrieval-augmented chat worker (src/src/index.ts): the    *)
(* chat request handler, the tee'd model response stream with its two      *)
(* readers, and the per-session Durable Object that stores the history.    *)
(*                                                                         *)
(* Text is a sequence of tokens (one-character strings or short words);    *)
(* JSON values that may be a string or something else are records          *)
(* [t |-> "string" | "undefined", v |-> <text>].                           *)
(***************************************************************************)
EXTENDS Integers, Sequences, FiniteSets, TLC

\* ------------------------------------------------------------------ bounds
MaxRequests == 2
MaxLegacy == 25
MaxNow == 2
MaxDocWindows == 3
MaxChunkSize == 3
MaxChunkText == 5
MaxStreamBytes == 4

\* ------------------------------------------------------- program constants
MAX_HISTORY == 20
MAX_CONTEXT_CHUNKS == 4
EMBEDDING_MAX_CHARS == 2048
DOCUMENT_MAX_CHARS == 50000
CHUNK_SIZE == 800
CHUNK_OVERLAP == 150
MAX_DOC_CHUNKS == 60
DEFAULT_MODEL_ID == <<"default-model">>
SYSTEM_PROMPT == <<"system-prompt">>

\* ------------------------------------------------------------ text helpers
Whitespace == {" ", "\n", "\r"}

Str(s) == [t |-> "string", v |-> s]
Undef == [t |-> "undefined", v |-> <<>>]

Text == Seq(STRING)

\* String.prototype.trim: from the first to the last non-whitespace token.
Trim[s \in Text] ==
  IF \A i \in 1..Len(s) : s[i] \in Whitespace THEN <<>>
  ELSE SubSeq(s,
              CHOOSE i \in 1..Len(s) :
                s[i] \notin Whitespace /\ \A j \in 1..(i - 1) : s[j] \in Whitespace,
              Len(s) + 1 -
                CHOOSE k \in 1..Len(s) :
                  /\ s[Len(s) + 1 - k] \notin Whitespace
                  /\ \A j \in 1..(k - 1) : s[Len(s) + 1 - j] \in Whitespace)

\* Array.prototype.slice(-n)
SliceLast(seq, n) ==
  IF Len(seq) <= n THEN seq ELSE SubSeq(seq, Len(seq) - n + 1, Len(seq))

\* The bytes of a sequence of chunks.
Flatten(chunks) ==
  LET upTo[i \in 0..Len(chunks)] ==
        IF i = 0 THEN <<>> ELSE upTo[i - 1] \o chunks[i]
  IN  upTo[Len(chunks)]

Range(seq) == {seq[i] : i \in 1..Len(seq)}

\* --------------------------------------------------- session Durable Object
Absent == [shape |-> "absent", messages |-> <<>>, modelId |-> Undef,
           createdAt |-> 0, updatedAt |-> 0]

BareArray(msgs) == [shape |-> "array", messages |-> msgs, modelId |-> Undef,
                    createdAt |-> 0, updatedAt |-> 0]

StoredRecord(rec) == [shape |-> "record", messages |-> rec.messages,
                      modelId |-> rec.modelId, createdAt |-> rec.createdAt,
                      updatedAt |-> rec.updatedAt]

EmptyStorage == [session |-> Absent, messages |-> Absent]

\* SessionDurableObject.getSessionRecord at time t on storage st: the record
\* it returns and the storage it leaves (the legacy key is deleted).
GetSessionRecord(st, t) ==
  LET legacyHit == st.session.shape = "absent" /\ st.messages.shape = "array"
      stored == IF st.session.shape # "absent" THEN st.session
                ELSE IF legacyHit THEN st.messages ELSE Absent
      after == IF legacyHit THEN [st EXCEPT !.messages = Absent] ELSE st
      rec == IF stored.shape = "absent"
             THEN [messages |-> <<>>, modelId |-> Undef,
                   createdAt |-> t, updatedAt |-> t]
             ELSE IF stored.shape = "array"
             THEN [messages |-> stored.messages, modelId |-> Undef,
                   createdAt |-> t, updatedAt |-> t]
             ELSE [messages |-> stored.messages,
                   modelId |-> IF stored.modelId.t = "string"
                               THEN Str(Trim[stored.modelId.v]) ELSE Undef,
                   createdAt |-> stored.createdAt,
                   updatedAt |-> stored.updatedAt]
  IN  [record |-> rec, storage |-> after]

PersistMessageKeepsOldest(session, message, modelId, t) ==
  LET pushed == Append(session.messages, message)
  IN  [messages |-> SubSeq(pushed, 1, IF Len(pushed) < MAX_HISTORY
                                      THEN Len(pushed) ELSE MAX_HISTORY),
       modelId |-> IF modelId.t = "string" /\ modelId.v # <<>>
                   THEN modelId ELSE session.modelId,
       createdAt |-> IF session.createdAt = 0 THEN t ELSE session.createdAt,
       updatedAt |-> t]

\* SessionDurableObject.persistMessage: the record it puts under the session
\* key, given the record getSessionRecord returned.
PersistMessage(session, message, modelId, t) ==
  [messages |-> SliceLast(Append(session.messages, message), MAX_HISTORY),
   modelId |-> IF modelId.t = "string" /\ modelId.v # <<>>
               THEN modelId ELSE session.modelId,
   createdAt |-> IF session.createdAt = 0 THEN t ELSE session.createdAt,
   updatedAt |-> t]

\* A check of the payload that accepts every role.
ValidMessagePayloadAnyRole(payload) == payload.content.t = "string"

\* The POST /messages handler's check of the payload.
ValidMessagePayload(payload) ==
  /\ payload.role \in {"assistant", "user"}
  /\ payload.content.t = "string"

\* The POST /messages handler's reading of body.modelId.
PostedModelId(modelId) ==
  IF modelId.t = "string" /\ Trim[modelId.v] # <<>>
  THEN Str(Trim[modelId.v]) ELSE Undef

\* fetchSessionHistory applied to the record the GET /messages handler sends.
FetchSessionHistory(rec) ==
  [messages |-> SliceLast(rec.messages, MAX_HISTORY),
   modelId |-> IF rec.modelId.t = "string" THEN rec.modelId ELSE Undef,
   createdAt |-> rec.createdAt,
   updatedAt |-> rec.updatedAt]

SelectModelIdStoredFirst(requestedModelId, storedModelId, fallbackModelId) ==
  IF storedModelId.t = "string" /\ Trim[storedModelId.v] # <<>>
  THEN Trim[storedModelId.v]
  ELSE IF requestedModelId.t = "string" /\ Trim[requestedModelId.v] # <<>>
  THEN Trim[requestedModelId.v]
  ELSE fallbackModelId

\* selectModelId
SelectModelId(requestedModelId, storedModelId, fallbackModelId) ==
  IF requestedModelId.t = "string" /\ Trim[requestedModelId.v] # <<>>
  THEN Trim[requestedModelId.v]
  ELSE IF storedModelId.t = "string" /\ Trim[storedModelId.v] # <<>>
  THEN Trim[storedModelId.v]
  ELSE fallbackModelId

\* --------------------------------------------------- model response stream
\* JSON.parse of one line of the model stream.  "{" f1 .. fk "}" stands for
\* {"response":"f1..fk"}, "#" for a JSON value with no string response;
\* anything else does not parse.  JSON.parse skips surrounding whitespace.
JsonSpecial == {"{", "}", "#", "\n", "\r"}

ParseJson[text \in Text] ==
  LET s == Trim[text]
  IN  IF s = <<"#">> THEN [ok |-> TRUE, response |-> Undef]
      ELSE IF /\ Len(s) >= 2
              /\ s[1] = "{"
              /\ s[Len(s)] = "}"
              /\ \A i \in 2..(Len(s) - 1) : s[i] \notin JsonSpecial
      THEN [ok |-> TRUE, response |-> Str(SubSeq(s, 2, Len(s) - 1))]
      ELSE [ok |-> FALSE, response |-> Undef]

\* String.prototype.split("\n"): the pieces between the newlines, always at
\* least one piece.
SplitLines[text \in Text] ==
  LET newlines == {i \in 1..Len(text) : text[i] = "\n"}
      Nth(j) == CHOOSE i \in newlines : Cardinality({k \in newlines : k < i}) = j - 1
      pieces == Cardinality(newlines) + 1
  IN  [j \in 1..pieces |->
         SubSeq(text, IF j = 1 THEN 1 ELSE Nth(j - 1) + 1,
                      IF j = pieces THEN Len(text) ELSE Nth(j) - 1)]

\* The body of the for loop over the complete lines: what one line adds.
LineFragment[line \in Text] ==
  LET trimmed == Trim[line]
      parsed == ParseJson[trimmed]
  IN  IF trimmed = <<>> THEN <<>>
      ELSE IF parsed.ok /\ parsed.response.t = "string" THEN parsed.response.v
      ELSE <<>>

\* The for loop over the complete lines: what they add to fullResponse.
LinesFragments[lines \in Seq(Text)] ==
  IF lines = <<>> THEN <<>>
  ELSE LineFragment[Head(lines)] \o LinesFragments[Tail(lines)]

CaptureChunkDropsPartial(buffered, fullResponse, value) ==
  LET lines == SplitLines[buffered \o value]
  IN  [buffered |-> <<>>,
       fullResponse |-> fullResponse
                        \o LinesFragments[SubSeq(lines, 1, Len(lines) - 1)]]

CaptureChunkGivesUpOnMalformed(buffered, fullResponse, value) ==
  LET lines == SplitLines[buffered \o value]
      complete == SubSeq(lines, 1, Len(lines) - 1)
  IN  [buffered |-> lines[Len(lines)],
       fullResponse |->
         IF \E i \in 1..Len(complete) :
              Trim[complete[i]] # <<>> /\ ~ParseJson[Trim[complete[i]]].ok
         THEN <<>>
         ELSE fullResponse \o LinesFragments[complete]]

\* captureAssistantResponse, one iteration of the read loop on chunk `value`.
CaptureChunk(buffered, fullResponse, value) ==
  LET lines == SplitLines[buffered \o value]
  IN  [buffered |-> lines[Len(lines)],
       fullResponse |-> fullResponse
                        \o LinesFragments[SubSeq(lines, 1, Len(lines) - 1)]]

\* captureAssistantResponse after the loop ended with done: the trailing line.
CaptureFinish(buffered, fullResponse) ==
  LET parsed == ParseJson[buffered]
  IN  IF buffered # <<>> /\ parsed.ok /\ parsed.response.t = "string"
      THEN fullResponse \o parsed.response.v
      ELSE fullResponse

\* TextDecoder.decode of a whole byte sequence, the bytes being ASCII
\* characters and the two bytes C3 A9 of the character U+00E9: a lead byte
\* with its continuation byte is the character, a lead byte before anything
\* else and a continuation byte alone are U+FFFD, a lead byte at the very end
\* gives nothing yet.
Utf8Decode[bytes \in Text] ==
  IF bytes = <<>> THEN <<>>
  ELSE IF Head(bytes) = "C3"
  THEN IF Len(bytes) = 1 THEN <<>>
       ELSE IF bytes[2] = "A9" THEN <<"E9">> \o Utf8Decode[Tail(Tail(bytes))]
       ELSE <<"FFFD">> \o Utf8Decode[Tail(bytes)]
  ELSE IF Head(bytes) = "A9" THEN <<"FFFD">> \o Utf8Decode[Tail(bytes)]
  ELSE <<Head(bytes)>> \o Utf8Decode[Tail(bytes)]

\* A decoder that decodes every chunk on its own.
DecodeChunkAlone(pending, value) ==
  [text |-> Utf8Decode[value]
            \o (IF value # <<>> /\ value[Len(value)] = "C3" THEN <<"FFFD">> ELSE <<>>),
   pending |-> <<>>]

\* decoder.decode(value, { stream: true }): the bytes held from the chunks
\* before are decoded with this chunk, and a lead byte at its end is held.
DecodeChunk(pending, value) ==
  LET input == pending \o value
  IN  [text |-> Utf8Decode[input],
       pending |-> IF input # <<>> /\ input[Len(input)] = "C3" THEN <<"C3">> ELSE <<>>]

\* captureAssistantResponse on the chunks its reader gives it, up to the
\* text it appends: the read loop, then the trailing line.
RECURSIVE CaptureLoop(_, _, _, _)
CaptureLoop(chunks, pending, buffered, fullResponse) ==
  IF chunks = <<>> THEN CaptureFinish(buffered, fullResponse)
  ELSE LET decoded == DecodeChunk(pending, Head(chunks))
           step == CaptureChunk(buffered, fullResponse, decoded.text)
       IN  CaptureLoop(Tail(chunks), decoded.pending, step.buffered, step.fullResponse)

\* ------------------------------------------------------------- retrieval
\* What the embedding model and the vector index do for one question.
\* A match carries metadata.text / metadata.title as JSON values and is
\* absent when the index returns a null entry.
Match(text, title) == [present |-> TRUE, text |-> text, title |-> title]
NullMatch == [present |-> FALSE, text |-> Undef, title |-> Undef]

Retrieval(embed, query, matches) ==
  [embed |-> embed, query |-> query, matches |-> matches]

\* embedText: the embedding, or null when the model throws or returns none.
EmbedText(outcome) == IF outcome.embed = "ok" THEN "vector" ELSE "null"

RECURSIVE CollectContextsUncapped(_, _)
CollectContextsUncapped(matches, contexts) ==
  IF matches = <<>> THEN contexts
  ELSE LET match == Head(matches)
           snippet == IF match.present /\ match.text.t = "string"
                      THEN Trim[match.text.v] ELSE <<>>
       IN  IF snippet = <<>> THEN CollectContextsUncapped(Tail(matches), contexts)
           ELSE CollectContextsUncapped(Tail(matches),
                  Append(contexts,
                    [text |-> snippet,
                     title |-> IF match.title.t = "string"
                                  /\ Trim[match.title.v] # <<>>
                               THEN Str(Trim[match.title.v]) ELSE Undef]))

\* The loop over queryResult.matches: skip null matches and matches with no
\* text, stop after MAX_CONTEXT_CHUNKS snippets.
RECURSIVE CollectContexts(_, _)
CollectContexts(matches, contexts) ==
  IF matches = <<>> \/ Len(contexts) >= MAX_CONTEXT_CHUNKS THEN contexts
  ELSE LET match == Head(matches)
           snippet == IF match.present /\ match.text.t = "string"
                      THEN Trim[match.text.v] ELSE <<>>
       IN  IF snippet = <<>> THEN CollectContexts(Tail(matches), contexts)
           ELSE CollectContexts(Tail(matches),
                  Append(contexts,
                    [text |-> snippet,
                     title |-> IF match.title.t = "string"
                                  /\ Trim[match.title.v] # <<>>
                               THEN Str(Trim[match.title.v]) ELSE Undef]))

\* The context block of the prompt fragment.
RECURSIVE ContextBlock(_, _)
ContextBlock(contexts, index) ==
  IF contexts = <<>> THEN <<>>
  ELSE <<"Context", ToString(index)>>
       \o (IF Head(contexts).title.t = "string"
           THEN <<"from">> \o Head(contexts).title.v ELSE <<>>)
       \o <<":">> \o Head(contexts).text
       \o ContextBlock(Tail(contexts), index + 1)

NoContext == [threw |-> FALSE, promptMessages |-> <<>>, snippets |-> <<>>]

BuildRetrievalContextNoCatch(question, outcome) ==
  LET contexts == CollectContexts(outcome.matches, <<>>)
  IN  IF Trim[question] = <<>> THEN NoContext
      ELSE IF EmbedText(outcome) = "null" THEN NoContext
      ELSE IF outcome.query = "throws"
      THEN [threw |-> TRUE, promptMessages |-> <<>>, snippets |-> <<>>]
      ELSE IF contexts = <<>> THEN NoContext
      ELSE [threw |-> FALSE,
            promptMessages |->
              <<[role |-> "system",
                 content |-> <<"reference-material">> \o ContextBlock(contexts, 1)]>>,
            snippets |-> contexts]

\* buildRetrievalContext: threw tells whether an exception leaves the call.
BuildRetrievalContext(question, outcome) ==
  LET contexts == CollectContexts(outcome.matches, <<>>)
  IN  IF Trim[question] = <<>> THEN NoContext
      ELSE IF EmbedText(outcome) = "null" THEN NoContext
      ELSE IF outcome.query = "throws" THEN NoContext
      ELSE IF contexts = <<>> THEN NoContext
      ELSE [threw |-> FALSE,
            promptMessages |->
              <<[role |-> "system",
                 content |-> <<"reference-material">> \o ContextBlock(contexts, 1)]>>,
            snippets |-> contexts]

\* The capability calls buildRetrievalContext makes.
RetrievalCalls(outcome) ==
  IF EmbedText(outcome) = "null" THEN {"embed"} ELSE {"embed", "query"}

\* The framing line prependContextStream puts before the model bytes.
RECURSIVE SnippetTexts(_)
SnippetTexts(snippets) ==
  IF snippets = <<>> THEN <<>>
  ELSE Head(snippets).text \o <<",">> \o SnippetTexts(Tail(snippets))

ContextLine(snippets) ==
  IF snippets = <<>> THEN <<>>
  ELSE <<"[context">> \o SnippetTexts(snippets) \o <<"]", "\n">>

\* ------------------------------------------------------- document upload
\* String.prototype.toLowerCase on the tokens of file names and MIME types.
LowerToken(token) ==
  CASE token = ".TXT" -> ".txt"
    [] token = ".PDF" -> ".pdf"
    [] token = ".EXE" -> ".exe"
    [] token = "TEXT/" -> "text/"
    [] token = "IMAGE/" -> "image/"
    [] OTHER -> token

ToLowerCase[text \in Text] == [i \in 1..Len(text) |-> LowerToken(text[i])]

StartsWith(text, prefix) == text # <<>> /\ text[1] = prefix
EndsWith(text, suffix) == text # <<>> /\ text[Len(text)] = suffix

\* An uploaded File and the absence of one.
File(name, mime, text) == [present |-> TRUE, name |-> name, mime |-> mime, text |-> text]
NoFile == [present |-> FALSE, name |-> <<>>, mime |-> <<>>, text |-> <<>>]

\* What the extraction model answers: it throws, or returns a text.
Extraction(kind, text) == [kind |-> kind, text |-> text]

\* A classification that looks for a PDF before a text.
FileKindPdfFirst(file) ==
  LET lowerName == ToLowerCase[file.name]
      mime == ToLowerCase[file.mime]
  IN  IF mime = <<"application/pdf">> \/ EndsWith(lowerName, ".pdf") THEN "pdf"
      ELSE IF StartsWith(mime, "text/")
              \/ \E ext \in {".txt", ".md", ".json", ".csv"} : EndsWith(lowerName, ext)
      THEN "text-file"
      ELSE IF StartsWith(mime, "image/") THEN "image"
      ELSE "unsupported"

\* The kind extractTextFromUpload classifies a file as: the first of
\* text-like, PDF and image that its MIME type or its name matches.
FileKind(file) ==
  LET lowerName == ToLowerCase[file.name]
      mime == ToLowerCase[file.mime]
  IN  IF StartsWith(mime, "text/")
         \/ \E ext \in {".txt", ".md", ".json", ".csv"} : EndsWith(lowerName, ext)
      THEN "text-file"
      ELSE IF mime = <<"application/pdf">> \/ EndsWith(lowerName, ".pdf") THEN "pdf"
      ELSE IF StartsWith(mime, "image/") THEN "image"
      ELSE "unsupported"

\* extractTextFromPdf and extractTextFromImage on the model's answer: the
\* trimmed text, or an exception when the model throws or the text is blank.
ExtractTextFromModel(kind, extraction) ==
  IF extraction.kind = "text" /\ Trim[extraction.text] # <<>>
  THEN [threw |-> FALSE, error |-> <<>>, text |-> Trim[extraction.text]]
  ELSE [threw |-> TRUE,
        error |-> IF kind = "pdf"
                  THEN <<"Unable to extract text from the PDF file.">>
                  ELSE <<"Unable to extract text from the image with the selected model.">>,
        text |-> <<>>]

\* extractTextFromUpload: the text, the source kind and the capability calls
\* made, or the exception thrown.
ExtractTextFromUpload(file, extraction) ==
  LET kind == FileKind(file)
      lowerName == ToLowerCase[file.name]
      mime == ToLowerCase[file.mime]
      viaModel == ExtractTextFromModel(kind, extraction)
  IN  IF kind = "text-file"
      THEN [threw |-> FALSE, error |-> <<>>, text |-> file.text,
            sourceType |-> kind, calls |-> {}]
      ELSE IF kind \in {"pdf", "image"}
      THEN [threw |-> viaModel.threw, error |-> viaModel.error, text |-> viaModel.text,
            sourceType |-> kind, calls |-> {"extract"}]
      ELSE [threw |-> TRUE,
            error |-> <<"Unsupported file type">>
                      \o (IF mime # <<>> THEN mime ELSE lowerName),
            text |-> <<>>, sourceType |-> kind, calls |-> {}]

\* [extraction.text, rawText].filter(non-blank).join("\n\n")
CombinedContent(extracted, rawText) ==
  IF Trim[extracted] = <<>> THEN (IF Trim[rawText] = <<>> THEN <<>> ELSE rawText)
  ELSE IF Trim[rawText] = <<>> THEN extracted
  ELSE extracted \o <<"\n", "\n">> \o rawText

\* handleDocumentUpload from the request to title, rawText and sourceType
\* (index.ts 192-236), with no x-source-type header.
DocumentContent(body, extraction) ==
  LET title == IF body.title.t = "string" /\ Trim[body.title.v] # <<>>
               THEN Trim[body.title.v] ELSE <<"Untitled document">>
      rawText == IF body.text.t = "string" /\ Trim[body.text.v] # <<>>
                 THEN body.text.v ELSE <<>>
      extracted == ExtractTextFromUpload(body.file, extraction)
  IN  IF body.multipart /\ body.file.present
      THEN [threw |-> extracted.threw, error |-> extracted.error,
            title |-> IF body.file.name # <<>> THEN body.file.name ELSE title,
            rawText |-> CombinedContent(extracted.text, rawText),
            sourceType |-> extracted.sourceType,
            originalName |-> body.file.name,
            calls |-> extracted.calls]
      ELSE [threw |-> FALSE, error |-> <<>>, title |-> title, rawText |-> rawText,
            sourceType |-> "manual", originalName |-> <<>>, calls |-> {}]

\* A slice that always loses the last character.
SliceFirstDropsLast(seq, n) ==
  IF Len(seq) <= 1 THEN seq ELSE SubSeq(seq, 1, Len(seq) - 1)

\* String.prototype.slice(0, n)
SliceFirst(seq, n) == IF Len(seq) <= n THEN seq ELSE SubSeq(seq, 1, n)

\* The tokens of text at the positions kept, in order.
Keep(text, kept) == [k \in 1..Len(kept) |-> text[kept[k]]]

\* rawText.replace(/\r\n/g, "\n")
ReplaceCrLf[text \in Text] ==
  Keep(text,
       SelectSeq([i \in 1..Len(text) |-> i],
                 LAMBDA i : ~(text[i] = "\r" /\ i < Len(text) /\ text[i + 1] = "\n")))

\* text.replace(/\n{3,}/g, "\n\n"): of a run of newlines the first two stay.
CollapseNewlines[text \in Text] ==
  Keep(text,
       SelectSeq([i \in 1..Len(text) |-> i],
                 LAMBDA i : ~(i >= 3 /\ text[i] = "\n" /\ text[i - 1] = "\n"
                              /\ text[i - 2] = "\n")))

RECURSIVE ChunkLoopCapTwice(_, _, _, _, _)
ChunkLoopCapTwice(normalized, chunkSize, step, index, chunks) ==
  IF ~(index < Len(normalized) /\ Len(chunks) < 2 * MAX_DOC_CHUNKS) THEN chunks
  ELSE LET window == SubSeq(normalized, index + 1,
                            IF index + chunkSize < Len(normalized)
                            THEN index + chunkSize ELSE Len(normalized))
           pushed == IF Trim[window] # <<>> THEN Append(chunks, Trim[window])
                     ELSE chunks
       IN  IF index + chunkSize >= Len(normalized) THEN pushed
           ELSE ChunkLoopCapTwice(normalized, chunkSize, step, index + step, pushed)

\* The while loop of chunkText from offset index (0-based) with the chunks
\* collected so far.
RECURSIVE ChunkLoop(_, _, _, _, _)
ChunkLoop(normalized, chunkSize, step, index, chunks) ==
  IF ~(index < Len(normalized) /\ Len(chunks) < MAX_DOC_CHUNKS) THEN chunks
  ELSE LET window == SubSeq(normalized, index + 1,
                            IF index + chunkSize < Len(normalized)
                            THEN index + chunkSize ELSE Len(normalized))
           pushed == IF Trim[window] # <<>> THEN Append(chunks, Trim[window])
                     ELSE chunks
       IN  IF index + chunkSize >= Len(normalized) THEN pushed
           ELSE ChunkLoop(normalized, chunkSize, step, index + step, pushed)

\* A chunker that moves on by a whole window, whatever the overlap.
ChunkTextStepIsSize(text, chunkSize, overlap) ==
  LET normalized == Trim[CollapseNewlines[text]]
  IN  IF normalized = <<>> THEN <<>>
      ELSE ChunkLoop(normalized, chunkSize, chunkSize, 0, <<>>)

\* A step that is not forced to be at least 1.
ChunkStepUnforced(chunkSize, overlap) ==
  IF chunkSize - overlap > 0 THEN chunkSize - overlap ELSE 0

\* Math.max(1, chunkSize - overlap)
ChunkStep(chunkSize, overlap) ==
  IF chunkSize - overlap > 1 THEN chunkSize - overlap ELSE 1

\* chunkText
ChunkText(text, chunkSize, overlap) ==
  LET normalized == Trim[CollapseNewlines[text]]
      step == ChunkStep(chunkSize, overlap)
  IN  IF normalized = <<>> THEN <<>>
      ELSE ChunkLoop(normalized, chunkSize, step, 0, <<>>)

CleanedOrUntitled(rawText) ==
  IF Trim[ReplaceCrLf[rawText]] = <<>> THEN <<"Untitled document">>
  ELSE Trim[ReplaceCrLf[rawText]]

\* rawText.replace(/\r\n/g, "\n").trim()
Cleaned(rawText) == Trim[ReplaceCrLf[rawText]]

\* handleDocumentUpload from the raw text to the chunks it embeds: clean,
\* limit, chunkText, then trim each chunk and drop the empty ones.
DocumentChunks(rawText) ==
  LET cleaned == Cleaned(rawText)
      chunks == ChunkText(SliceFirst(cleaned, DOCUMENT_MAX_CHARS),
                          CHUNK_SIZE, CHUNK_OVERLAP)
  IN  SelectSeq([i \in 1..Len(chunks) |-> Trim[chunks[i]]],
                LAMBDA chunk : chunk # <<>>)

VectorRecordIdOfDocument(docId, index, chunk) ==
  [id |-> docId, docId |-> docId, chunkIndex |-> index, text |-> chunk]

\* The record generateEmbeddingsForChunks pushes for the chunk at position
\* index (0-based) of the chunk list.
VectorRecord(docId, index, chunk) ==
  [id |-> docId \o <<"#", ToString(index)>>, docId |-> docId,
   chunkIndex |-> index, text |-> chunk]

UpsertsOfEveryChunk(chunks, embeddingData, docId) ==
  [k \in 1..Len(chunks) |->
     VectorRecord(docId, k - 1, SliceFirst(chunks[k], EMBEDDING_MAX_CHARS))]

\* The forEach of generateEmbeddingsForChunks: one record per chunk whose
\* embedding is a non-empty array, carrying the chunk's position.
Upserts(chunks, embeddingData, docId) ==
  LET kept == SelectSeq([i \in 1..Len(chunks) |-> i],
                        LAMBDA i : embeddingData[i] = "vector")
  IN  [k \in 1..Len(kept) |->
         VectorRecord(docId, kept[k] - 1,
                      SliceFirst(chunks[kept[k]], EMBEDDING_MAX_CHARS))]

GenerateEmbeddingsForChunksUnchecked(chunks, answer, docId) ==
  LET kept == SelectSeq([i \in 1..Len(chunks) |-> i],
                        LAMBDA i : i <= Len(answer.data) /\ answer.data[i] = "vector")
      upserts == [k \in 1..Len(kept) |->
                    VectorRecord(docId, kept[k] - 1,
                                 SliceFirst(chunks[kept[k]], EMBEDDING_MAX_CHARS))]
  IN  IF answer.throws \/ upserts = <<>>
      THEN [threw |-> TRUE, error |-> <<"Failed to index document">>, upserts |-> <<>>]
      ELSE [threw |-> FALSE, error |-> <<>>, upserts |-> upserts]

\* generateEmbeddingsForChunks on the embedding model's answer (data: per
\* chunk "vector", or "missing" for no or an empty embedding): it throws
\* when the model throws, on a count mismatch and when no vector is left.
GenerateEmbeddingsForChunks(chunks, answer, docId) ==
  IF answer.throws
  THEN [threw |-> TRUE, error |-> <<"Failed to index document">>, upserts |-> <<>>]
  ELSE IF Len(answer.data) # Len(chunks)
  THEN [threw |-> TRUE,
        error |-> <<"Embedding response length", ToString(Len(answer.data)),
                    "did not match chunk count", ToString(Len(chunks))>>,
        upserts |-> <<>>]
  ELSE IF Upserts(chunks, answer.data, docId) = <<>>
  THEN [threw |-> TRUE,
        error |-> <<"Embedding model returned no vectors for provided content.">>,
        upserts |-> <<>>]
  ELSE [threw |-> FALSE, error |-> <<>>,
        upserts |-> Upserts(chunks, answer.data, docId)]

\* ------------------------------------------------------------- the router
RouteOfAnyMethod(method, path) ==
  IF path = <<"/">> \/ ~StartsWith(path, "/api/") THEN "assets"
  ELSE IF path = <<"/api/", "history">> THEN "history"
  ELSE IF path = <<"/api/", "docs">> THEN "docs"
  ELSE IF path = <<"/api/", "chat">> THEN "chat"
  ELSE "404"

\* The branch the Worker's fetch takes for a request line: static assets, one
\* of the three API handlers, method not allowed or not found.
RouteOf(method, path) ==
  IF path = <<"/">> \/ ~StartsWith(path, "/api/") THEN "assets"
  ELSE IF path = <<"/api/", "history">>
  THEN (IF method # "GET" THEN "405" ELSE "history")
  ELSE IF path = <<"/api/", "docs">>
  THEN (IF method = "POST" THEN "docs" ELSE "405")
  ELSE IF path = <<"/api/", "chat">>
  THEN (IF method = "POST" THEN "chat" ELSE "405")
  ELSE "404"

\* ------------------------------------------------------------ chat request
\* safeJson and the reading of body.sessionId / body.message.
ChatSessionId(body) ==
  IF body.json /\ body.sessionId.t = "string" THEN Trim[body.sessionId.v] ELSE <<>>

ChatMessageText(body) ==
  IF body.json /\ body.message.t = "string" THEN Trim[body.message.v] ELSE <<>>

ValidChatBodyUntrimmed(body) ==
  /\ body.json
  /\ body.sessionId.t = "string" /\ body.sessionId.v # <<>>
  /\ body.message.t = "string" /\ body.message.v # <<>>

\* The three validation returns of handleChatRequest.
ValidChatBody(body) ==
  /\ body.json
  /\ ChatSessionId(body) # <<>>
  /\ ChatMessageText(body) # <<>>

LlmMessagesContextLast(promptMessages, history, userMessage) ==
  <<[role |-> "system", content |-> SYSTEM_PROMPT]>>
  \o history \o promptMessages \o <<userMessage>>

\* The messages array passed to env.AI.run.
LlmMessages(promptMessages, history, userMessage) ==
  <<[role |-> "system", content |-> SYSTEM_PROMPT]>>
  \o promptMessages \o history \o <<userMessage>>

\* ------------------------------------------------------------------ state
VARIABLES
  now,      \* the clock read by new Date()
  storage,  \* per session: the Durable Object's "session" and "messages" keys
  req,      \* per request: the handler's locals, its streams and its readers
  log,      \* per session: the appends the Durable Object has completed
  issue,    \* per session: how the chat turns were issued so far
  prior     \* per session: the messages stored before the first request

vars == <<now, storage, req, log, issue, prior>>

Sessions == {<<"A">>, <<"B">>}
Requests == 1..MaxRequests

UserText(r) == <<"q", ToString(r)>>

\* A history of n messages written before this deployment.
OldHistory(n) ==
  [i \in 1..n |-> [role |-> IF i % 2 = 1 THEN "user" ELSE "assistant",
                   content |-> <<"h", ToString(i)>>]]

\* The storage contents the model starts from: nothing stored; session A in
\* the legacy shape (an array under the "messages" key); session A one short
\* of the cap with a model id and session B a bare array under "session".
InitialStorages ==
  { [s \in Sessions |-> EmptyStorage],
    [s \in Sessions |->
       IF s = <<"A">>
       THEN [session |-> Absent, messages |-> BareArray(OldHistory(MaxLegacy))]
       ELSE EmptyStorage],
    [s \in Sessions |->
       IF s = <<"A">>
       THEN [session |-> [shape |-> "record",
                          messages |-> OldHistory(MAX_HISTORY - 1),
                          modelId |-> Str(<<"m0">>),
                          createdAt |-> 1, updatedAt |-> 1],
             messages |-> Absent]
       ELSE [session |-> BareArray(OldHistory(MaxLegacy)), messages |-> Absent]] }

IdleRequest ==
  [kind |-> "none", pc |-> "idle", status |-> 0,
   line |-> [method |-> "none", path |-> <<>>],
   body |-> [json |-> FALSE, sessionId |-> Undef, message |-> Undef, modelId |-> Undef],
   sessionId |-> <<>>, message |-> <<>>,
   history |-> <<>>, historyModelId |-> Undef, sessionModelId |-> <<>>,
   llmModelId |-> <<>>,
   payload |-> [messages |-> <<>>, modelId |-> Undef, createdAt |-> 0, updatedAt |-> 0],
   retrieval |-> Retrieval("none", "none", <<>>),
   promptMessages |-> <<>>, snippets |-> <<>>, llmMessages |-> <<>>,
   upstream |-> <<>>, source |-> <<>>, sourceEnd |-> "closed", teeEnd |-> "open",
   clientQ |-> <<>>, storageQ |-> <<>>,
   client |-> "none", ctxSent |-> FALSE, clientOut |-> <<>>,
   cap |-> "none", capSeen |-> <<>>, buffered |-> <<>>, fullResponse |-> <<>>,
   capResult |-> "none",
   persisting |-> FALSE,
   persistRead |-> [messages |-> <<>>, modelId |-> Undef, createdAt |-> 0, updatedAt |-> 0],
   doc |-> [body |-> [json |-> FALSE, multipart |-> FALSE, title |-> Undef,
                      text |-> Undef, file |-> NoFile],
            extraction |-> Extraction("none", <<>>),
            title |-> <<>>, sourceType |-> "manual", docId |-> <<>>,
            chunks |-> <<>>, answer |-> [throws |-> FALSE, data |-> <<>>],
            upserts |-> <<>>, upserted |-> FALSE, reported |-> 0],
   chunker |-> [text |-> <<>>, chunkSize |-> CHUNK_SIZE, overlap |-> CHUNK_OVERLAP,
                normalized |-> <<>>, step |-> 0, index |-> 0, iterations |-> 0,
                chunks |-> <<>>],
   response |-> [type |-> "none", error |-> Undef],
   post |-> [json |-> FALSE, present |-> FALSE, role |-> "", content |-> Undef,
             modelId |-> Undef],
   calls |-> {}]

Init ==
  /\ now = 1
  /\ storage \in InitialStorages
  /\ req = [r \in Requests |-> IdleRequest]
  /\ log = [s \in Sessions |-> <<>>]
  /\ issue = [s \in Sessions |-> "quiescent"]
  /\ prior = [s \in Sessions |-> GetSessionRecord(storage[s], now).record.messages]

\* -------------------------------------------------------- the environment
Body(sessionId, message, modelId) ==
  [json |-> TRUE, sessionId |-> sessionId, message |-> message, modelId |-> modelId]

NotJson == [json |-> FALSE, sessionId |-> Undef, message |-> Undef, modelId |-> Undef]

Stream(status, chunks, ends) ==
  [kind |-> "body", status |-> status, chunks |-> chunks, ends |-> ends]

LlmThrows == [kind |-> "throws", status |-> 0, chunks |-> <<>>, ends |-> "closed"]
LlmNoBody == [kind |-> "nobody", status |-> 200, chunks |-> <<>>, ends |-> "closed"]

\* Requests of a turn-by-turn client and what the capabilities answer them:
\* the inputs of the specification with concurrent requests.
FewInputs ==
  [bodies |-> [r \in Requests |->
       {NotJson}
       \cup {Body(Str(sid), Str(<<" ">> \o UserText(r)), Undef) :
               sid \in {<<"A">>, <<" ", "B", " ">>}}],
   historyIds |-> {Undef, Str(<<"A">>)},
   retrievals |-> { Retrieval("throws", "none", <<>>) },
   llm |-> { LlmThrows,
             Stream(200, << <<"{", "a", "}", "\n">> >>, "closed") }]

\* The inputs of the specification of one chat turn.
ManyInputs ==
  [bodies |-> [r \in Requests |->
       {NotJson,
        Body(Undef, Str(UserText(r)), Undef),
        Body(Str(<<" ", "\n">>), Str(UserText(r)), Undef),
        Body(Str(<<"A">>), Undef, Undef),
        Body(Str(<<"A">>), Str(<<>>), Undef),
        Body(Str(<<"A">>), Str(<<" ", " ">>), Str(<<"m1">>))}
       \cup {Body(Str(sid), Str(<<" ">> \o UserText(r) \o <<"\n">>), mid) :
               sid \in {<<"A">>, <<" ", "B", " ">>},
               mid \in {Undef, Str(<<" ">>), Str(<<" ", "m1">>)}}],
   historyIds |-> {Undef, Str(<<"A">>), Str(<<"B">>)},
   retrievals |->
     { Retrieval("throws", "none", <<>>),
       Retrieval("missing", "none", <<>>),
       Retrieval("ok", "throws", <<>>),
       Retrieval("ok", "ok", <<>>),
       Retrieval("ok", "ok", <<NullMatch, Match(Undef, Str(<<"t">>)),
                               Match(Str(<<" ">>), Undef)>>),
       Retrieval("ok", "ok", <<Match(Str(<<" ">>), Undef),
                               Match(Str(<<"k1", " ">>), Str(<<"t">>))>>),
       Retrieval("ok", "ok", <<Match(Str(<<"k1">>), Undef), Match(Str(<<"k2">>), Undef),
                               Match(Str(<<"k3">>), Undef), Match(Str(<<"k4">>), Undef),
                               Match(Str(<<"k5">>), Undef)>>) },
   llm |->
     {LlmThrows, LlmNoBody,
      Stream(500, << <<"#", "\n">> >>, "closed"),
      Stream(429, << <<"#", "\n">> >>, "closed")}
     \cup {Stream(200, chunks, ends) :
             chunks \in { <<>>,
                          << <<"{", "a", "}", "\n">>, <<"{", "b", "}", "\n">> >>,
                          << <<"{", "a">>, <<"}", "\n", "{", "b", "}">> >>,
                          << <<"x", "\n", "{", "a", " ", "}", "\r", "\n">>, <<" ">> >>,
                          << <<"#", "\n", " ", "\n">>, <<"{", "}", "\n">> >> },
             ends \in {"closed", "errored"}}]

\* ------------------------------------------------------------- the actions
RespondAndGoOn(rq, status) == [rq EXCEPT !.status = status]

\* The handler returns a response: nothing of it runs afterwards.
Respond(rq, status) == [rq EXCEPT !.pc = "done", !.status = status]

\* jsonResponse(body, status): a JSON body, whose error member is a message
\* or is not there.
JsonResponse(rq, error, status) ==
  [Respond(rq, status) EXCEPT !.response = [type |-> "json", error |-> error]]

\* new Response("...", { status }): a body of plain text.
TextResponse(rq, status) ==
  [Respond(rq, status) EXCEPT !.response = [type |-> "text", error |-> Undef]]

\* The error message of the validation return a chat body runs into.
ChatBodyError(body) ==
  IF ~body.json THEN <<"Invalid JSON payload">>
  ELSE IF ChatSessionId(body) = <<>> THEN <<"Missing sessionId">>
  ELSE <<"Message content is required">>

\* A chat turn of session s that has been issued and whose client has not
\* received the whole response, or has given up on it.
ClientPending(rq) ==
  rq.kind = "chat" /\ rq.pc # "idle"
  /\ (rq.status = 0 \/ rq.client \in {"reading", "cancelled"})

\* A chat turn whose background capture has not finished.
CapturePending(rq) ==
  rq.kind = "chat" /\ rq.cap \in {"reading", "appending"}

IssueAfter(s, r, before) ==
  LET others == {o \in Requests \ {r} : req[o].sessionId = s}
  IN  IF before = "overlapping" \/ \E o \in others : ClientPending(req[o])
      THEN "overlapping"
      ELSE IF before = "afterClient" \/ \E o \in others : CapturePending(req[o])
      THEN "afterClient"
      ELSE "quiescent"

\* Durable Object input gate: while a handler of the session's object awaits
\* its storage (persistMessage between its get and its put), the object is
\* delivered no other request.
InputGateAlwaysOpen(s) == TRUE

InputGateOpen(s) ==
  \A o \in Requests : ~(req[o].persisting /\ req[o].sessionId = s)

\* POST /api/chat arrives: safeJson and the validation (index.ts 100-118).
ChatRequest(r, inputs) ==
  /\ req[r].pc = "idle"
  /\ \A o \in Requests : o < r => req[o].pc # "idle"
  /\ \E body \in inputs.bodies[r] :
       IF ValidChatBody(body)
       THEN /\ req' = [req EXCEPT ![r] =
                        [@ EXCEPT !.kind = "chat", !.pc = "loading", !.body = body,
                                  !.sessionId = ChatSessionId(body),
                                  !.message = ChatMessageText(body)]]
            /\ issue' = [issue EXCEPT ![ChatSessionId(body)] =
                          IssueAfter(ChatSessionId(body), r, @)]
       ELSE /\ req' = [req EXCEPT ![r] =
                        JsonResponse([@ EXCEPT !.kind = "chat", !.body = body],
                                     Str(ChatBodyError(body)), 400)]
            /\ UNCHANGED issue
  /\ UNCHANGED <<now, storage, log, prior>>

AfterLoadHistorySkipsAppend == "retrieving"

\* handleChatRequest appends the user message right after loading the
\* history, before buildRetrievalContext (index.ts 128-129).
AfterLoadHistory == "appendUser"

\* fetchSessionHistory and selectModelId (index.ts 120-126).
LoadHistory(r) ==
  LET s == req[r].sessionId
      got == GetSessionRecord(storage[s], now)
      record == FetchSessionHistory(got.record)
  IN  /\ req[r].kind = "chat" /\ req[r].pc = "loading"
      /\ InputGateOpen(s)
      /\ storage' = [storage EXCEPT ![s] = got.storage]
      /\ req' = [req EXCEPT ![r] =
                  [@ EXCEPT !.pc = AfterLoadHistory,
                            !.history = record.messages,
                            !.historyModelId = record.modelId,
                            !.sessionModelId =
                               SelectModelId(req[r].body.modelId, record.modelId,
                                             DEFAULT_MODEL_ID),
                            !.calls = @ \cup {"read"}]]
      /\ UNCHANGED <<now, log, issue, prior>>

\* The session read fails: the catch of handleChatRequest answers 500.
LoadHistoryFails(r) ==
  /\ req[r].kind = "chat" /\ req[r].pc = "loading"
  /\ req' = [req EXCEPT ![r] = JsonResponse([@ EXCEPT !.calls = @ \cup {"read"}],
                                           Str(<<"Failed to process request">>), 500)]
  /\ UNCHANGED <<now, storage, log, issue, prior>>

\* The request is inside appendMessage: for its user message (index.ts 129)
\* or, in the background capture, for the assistant message (index.ts 350).
Appending(rq) == rq.pc = "appendUser" \/ rq.cap = "appending"

MessageToAppendAsUser(rq) ==
  [role |-> "user",
   content |-> IF rq.pc = "appendUser" THEN rq.message ELSE rq.fullResponse]

\* The message appendMessage is called with: userMessage (index.ts 128) or
\* { role: "assistant", content: fullResponse } (index.ts 350).
MessageToAppend(rq) ==
  IF rq.pc = "appendUser"
  THEN [role |-> "user", content |-> rq.message]
  ELSE [role |-> "assistant", content |-> rq.fullResponse]

\* appendMessage reaches the object: the POST /messages handler checks the
\* payload and persistMessage reads the session record.
PersistBegin(r) ==
  LET s == req[r].sessionId
      message == MessageToAppend(req[r])
      got == GetSessionRecord(storage[s], now)
  IN  /\ Appending(req[r]) /\ ~req[r].persisting
      /\ InputGateOpen(s)
      /\ ValidMessagePayload([role |-> message.role, content |-> Str(message.content)])
      /\ storage' = [storage EXCEPT ![s] = got.storage]
      /\ req' = [req EXCEPT ![r] =
                  [@ EXCEPT !.persisting = TRUE, !.persistRead = got.record,
                            !.calls = @ \cup {"write"}]]
      /\ UNCHANGED <<now, log, issue, prior>>

\* A persistMessage that puts the record under the key of every session.
PersistEndEverywhere(r) ==
  LET s == req[r].sessionId
      message == MessageToAppend(req[r])
      session == PersistMessage(req[r].persistRead, message,
                                PostedModelId(Str(req[r].sessionModelId)), now)
  IN  /\ req[r].persisting
      /\ storage' = [o \in Sessions |->
                       [storage[o] EXCEPT !.session = StoredRecord(session)]]
      /\ log' = [log EXCEPT ![s] =
                  Append(@, [req |-> r, message |-> message, contended |-> FALSE])]
      /\ req' = [req EXCEPT ![r] =
                  IF @.pc = "appendUser"
                  THEN [@ EXCEPT !.persisting = FALSE, !.pc = "retrieving"]
                  ELSE [@ EXCEPT !.persisting = FALSE, !.cap = "done",
                                 !.capResult = "stored"]]
      /\ UNCHANGED <<now, issue, prior>>

\* A persistMessage that pushes the message twice.
PersistEndTwice(r) ==
  LET s == req[r].sessionId
      message == MessageToAppend(req[r])
      posted == PostedModelId(Str(req[r].sessionModelId))
      once == PersistMessage(req[r].persistRead, message, posted, now)
      entry == [req |-> r, message |-> message, contended |-> FALSE]
  IN  /\ req[r].persisting
      /\ storage' = [storage EXCEPT ![s].session =
                       StoredRecord(PersistMessage(once, message, posted, now))]
      /\ log' = [log EXCEPT ![s] = @ \o <<entry, entry>>]
      /\ req' = [req EXCEPT ![r] =
                  IF @.pc = "appendUser"
                  THEN [@ EXCEPT !.persisting = FALSE, !.pc = "retrieving"]
                  ELSE [@ EXCEPT !.persisting = FALSE, !.cap = "done",
                                 !.capResult = "stored"]]
      /\ UNCHANGED <<now, issue, prior>>

\* persistMessage pushes, slices and puts the record; appendMessage returns.
PersistEnd(r) ==
  LET s == req[r].sessionId
      message == MessageToAppend(req[r])
      session == PersistMessage(req[r].persistRead, message,
                                PostedModelId(Str(req[r].sessionModelId)), now)
  IN  /\ req[r].persisting
      /\ storage' = [storage EXCEPT ![s].session = StoredRecord(session)]
      /\ log' = [log EXCEPT ![s] =
                  Append(@, [req |-> r, message |-> message,
                             contended |-> \E o \in Requests \ {r} :
                                             /\ Appending(req[o])
                                             /\ req[o].sessionId = s])]
      /\ req' = [req EXCEPT ![r] =
                  IF @.pc = "appendUser"
                  THEN [@ EXCEPT !.persisting = FALSE, !.pc = "retrieving"]
                  ELSE [@ EXCEPT !.persisting = FALSE, !.cap = "done",
                                 !.capResult = "stored"]]
      /\ UNCHANGED <<now, issue, prior>>

\* The object does not answer 204 (unreachable, or the payload is refused):
\* appendMessage throws; the handler answers 500, the capture task ends.
PersistFails(r) ==
  /\ Appending(req[r]) /\ ~req[r].persisting
  /\ req' = [req EXCEPT ![r] =
              IF @.pc = "appendUser"
              THEN JsonResponse([@ EXCEPT !.calls = @ \cup {"write"}],
                                Str(<<"Failed to process request">>), 500)
              ELSE [@ EXCEPT !.cap = "done", !.capResult = "rejected",
                             !.calls = @ \cup {"write"}]]
  /\ UNCHANGED <<now, storage, log, issue, prior>>

\* buildRetrievalContext (index.ts 131-134).
Retrieve(r, inputs) ==
  /\ req[r].pc = "retrieving"
  /\ \E outcome \in inputs.retrievals :
       LET built == BuildRetrievalContext(req[r].message, outcome)
       IN  req' = [req EXCEPT ![r] =
                    IF built.threw
                    THEN JsonResponse([@ EXCEPT !.retrieval = outcome,
                                                !.calls = @ \cup RetrievalCalls(outcome)],
                                      Str(<<"Failed to process request">>), 500)
                    ELSE [@ EXCEPT !.pc = "invoking", !.retrieval = outcome,
                                   !.promptMessages = built.promptMessages,
                                   !.snippets = built.snippets,
                                   !.calls = @ \cup RetrievalCalls(outcome)]]
  /\ UNCHANGED <<now, storage, log, issue, prior>>

\* env.AI.run, the tee, waitUntil(capture) and the streaming Response
\* (index.ts 135-174).
Invoke(r, inputs) ==
  /\ req[r].pc = "invoking"
  /\ \E outcome \in inputs.llm :
       LET called == [req[r] EXCEPT
                        !.llmMessages =
                           LlmMessages(req[r].promptMessages, req[r].history,
                                       [role |-> "user", content |-> req[r].message]),
                        !.llmModelId = req[r].sessionModelId,
                        !.calls = @ \cup {"llm"}]
       IN  req' = [req EXCEPT ![r] =
                    IF outcome.kind = "throws"
                    THEN JsonResponse(called, Str(<<"Failed to process request">>), 500)
                    ELSE IF outcome.kind # "body"
                    THEN JsonResponse(called, Str(<<"Model returned empty response">>), 500)
                    ELSE [Respond(called, outcome.status) EXCEPT
                            !.response = [type |-> "stream", error |-> Undef],
                            !.upstream = outcome.chunks,
                            !.source = outcome.chunks,
                            !.sourceEnd = outcome.ends,
                            !.client = "reading",
                            !.cap = "reading"]]
  /\ UNCHANGED <<now, storage, log, issue, prior>>

\* One read of a branch of response.body.tee(): the branch's own queue
\* first; else the source is read and the chunk is queued for the other
\* branch too (unless that branch was cancelled); else the end of the source.
TeeRead(rq, branch) ==
  LET mine == IF branch = "client" THEN rq.clientQ ELSE rq.storageQ
  IN  IF mine # <<>>
      THEN [kind |-> "chunk", value |-> Head(mine),
            rq |-> IF branch = "client" THEN [rq EXCEPT !.clientQ = Tail(@)]
                   ELSE [rq EXCEPT !.storageQ = Tail(@)]]
      ELSE IF rq.teeEnd # "open"
      THEN [kind |-> rq.teeEnd, value |-> <<>>, rq |-> rq]
      ELSE IF rq.source # <<>>
      THEN [kind |-> "chunk", value |-> Head(rq.source),
            rq |-> IF branch = "client"
                   THEN [rq EXCEPT !.source = Tail(@),
                                   !.storageQ = Append(@, Head(rq.source))]
                   ELSE IF rq.client = "cancelled"
                   THEN [rq EXCEPT !.source = Tail(@)]
                   ELSE [rq EXCEPT !.source = Tail(@),
                                   !.clientQ = Append(@, Head(rq.source))]]
      ELSE [kind |-> rq.sourceEnd, value |-> <<>>,
            rq |-> [rq EXCEPT !.teeEnd = rq.sourceEnd]]

ReadBranchUntilClientGone(rq, branch) ==
  IF rq.client = "cancelled"
  THEN [kind |-> "closed", value |-> <<>>, rq |-> rq]
  ELSE TeeRead(rq, branch)

\* The two branches of the tee are independent readers: a read of either
\* is served whatever the other branch does (index.ts 163-167).
ReadBranch(rq, branch) == TeeRead(rq, branch)

ClientDeliverSkipsFirst(rq, got) ==
  IF got.kind = "chunk"
  THEN [got.rq EXCEPT !.clientOut = @ \o Tail(got.value)]
  ELSE IF got.kind = "closed" \/ rq.snippets # <<>>
  THEN [got.rq EXCEPT !.client = "ended"]
  ELSE [got.rq EXCEPT !.client = "errored"]

\* What a read of the model bytes hands the client: directly from the tee
\* branch, or through the pump of prependContextStream, which forwards each
\* chunk and closes the outbound stream when the branch ends or fails.
ClientDeliver(rq, got) ==
  IF got.kind = "chunk"
  THEN [got.rq EXCEPT !.clientOut = @ \o got.value]
  ELSE IF got.kind = "closed" \/ rq.snippets # <<>>
  THEN [got.rq EXCEPT !.client = "ended"]
  ELSE [got.rq EXCEPT !.client = "errored"]

ContextDueNever(rq) == FALSE

\* prependContextStream enqueues the context line first, and only when there
\* are snippets (index.ts 652-668): the line is the next thing to deliver.
ContextDue(rq) == rq.snippets # <<>> /\ ~rq.ctxSent

\* The client reads the response body: the context line first, when
\* prependContextStream enqueued one, then the model bytes.
ClientRead(r) ==
  /\ req[r].client = "reading"
  /\ req' = [req EXCEPT ![r] =
              IF ContextDue(req[r])
              THEN [@ EXCEPT !.ctxSent = TRUE,
                             !.clientOut = ContextLine(req[r].snippets)]
              ELSE ClientDeliver(@, ReadBranch(@, "client"))]
  /\ UNCHANGED <<now, storage, log, issue, prior>>

\* The client disconnects: its branch is no longer consumed.
ClientCancel(r) ==
  /\ req[r].client = "reading"
  /\ req' = [req EXCEPT ![r] = [@ EXCEPT !.client = "cancelled", !.clientQ = <<>>]]
  /\ UNCHANGED <<now, storage, log, issue, prior>>

\* What captureAssistantResponse does after its read loop: nothing when the
\* reply is empty, appendMessage otherwise.
CaptureEnd(rq, fullResponse) ==
  IF fullResponse = <<>>
  THEN [rq EXCEPT !.fullResponse = fullResponse, !.buffered = <<>>,
                  !.cap = "done", !.capResult = "empty"]
  ELSE [rq EXCEPT !.fullResponse = fullResponse, !.buffered = <<>>,
                  !.cap = "appending"]

\* captureAssistantResponse: one reader.read() and what follows it.
CaptureRead(r) ==
  /\ req[r].cap = "reading"
  /\ LET got == ReadBranch(req[r], "storage")
         step == CaptureChunk(req[r].buffered, req[r].fullResponse, got.value)
     IN  req' = [req EXCEPT ![r] =
                  IF got.kind = "chunk"
                  THEN [got.rq EXCEPT !.capSeen = @ \o got.value,
                                      !.buffered = step.buffered,
                                      !.fullResponse = step.fullResponse]
                  ELSE IF got.kind = "closed"
                  THEN CaptureEnd(got.rq, CaptureFinish(@.buffered, @.fullResponse))
                  ELSE CaptureEnd(got.rq, @.fullResponse)]
  /\ UNCHANGED <<now, storage, log, issue, prior>>

\* GET /api/history arrives (index.ts 49-57).
HistoryRequest(r, inputs) ==
  /\ req[r].pc = "idle"
  /\ \A o \in Requests : o < r => req[o].pc # "idle"
  /\ \E sessionId \in inputs.historyIds :
       req' = [req EXCEPT ![r] =
                IF sessionId.t # "string" \/ sessionId.v = <<>>
                THEN JsonResponse([@ EXCEPT !.kind = "history"],
                                  Str(<<"Missing sessionId">>), 400)
                ELSE [@ EXCEPT !.kind = "history", !.pc = "loading",
                               !.sessionId = sessionId.v]]
  /\ UNCHANGED <<now, storage, log, issue, prior>>

\* fetchSessionHistory for GET /api/history (index.ts 59-62).
HistoryLoad(r) ==
  LET s == req[r].sessionId
      got == GetSessionRecord(storage[s], now)
  IN  /\ req[r].kind = "history" /\ req[r].pc = "loading"
      /\ InputGateOpen(s)
      /\ storage' = [storage EXCEPT ![s] = got.storage]
      /\ req' = [req EXCEPT ![r] =
                  JsonResponse([@ EXCEPT !.payload = FetchSessionHistory(got.record),
                                         !.calls = @ \cup {"read"}], Undef, 200)]
      /\ UNCHANGED <<now, log, issue, prior>>

\* The session read fails: index.ts 63-66.
HistoryLoadFails(r) ==
  /\ req[r].kind = "history" /\ req[r].pc = "loading"
  /\ req' = [req EXCEPT ![r] = JsonResponse([@ EXCEPT !.calls = @ \cup {"read"}],
                                           Str(<<"Unable to load history">>), 500)]
  /\ UNCHANGED <<now, storage, log, issue, prior>>

Step(r, inputs) ==
  \/ ChatRequest(r, inputs)
  \/ LoadHistory(r)
  \/ LoadHistoryFails(r)
  \/ PersistBegin(r)
  \/ PersistEnd(r)
  \/ PersistFails(r)
  \/ Retrieve(r, inputs)
  \/ Invoke(r, inputs)
  \/ ClientRead(r)
  \/ ClientCancel(r)
  \/ CaptureRead(r)
  \/ HistoryRequest(r, inputs)
  \/ HistoryLoad(r)
  \/ HistoryLoadFails(r)

\* Concurrent requests of a few kinds.
Next == \E r \in Requests : Step(r, FewInputs)

Spec == Init /\ [][Next]_vars

\* One request, with every kind of input and capability answer.
NextTurn == Step(1, ManyInputs)

SpecTurn == Init /\ [][NextTurn]_vars

\* Chat turns of one session that name a model or leave it to the session,
\* and reads of that session's history.
ModelInputs ==
  [bodies |-> [r \in Requests |->
       {Body(Str(<<"A">>), Str(UserText(r)), mid) :
          mid \in {Undef, Str(<<" ", "m1">>)}}],
   historyIds |-> {Str(<<"A">>)},
   retrievals |-> { Retrieval("throws", "none", <<>>) },
   llm |-> { Stream(200, << <<"{", "a", "}", "\n">> >>, "closed") }]

NextModels == \E r \in Requests : Step(r, ModelInputs)

SpecModels == Init /\ [][NextModels]_vars

\* POST /api/docs arrives, as JSON or as a multipart form: the handler up to
\* the chunks and the document id (index.ts 191-262).
DocumentRequest(r, inputs) ==
  /\ req[r].pc = "idle"
  /\ \A o \in Requests : o < r => req[o].pc # "idle"
  /\ \E body \in inputs.docs, extraction \in inputs.extractions :
       LET content == DocumentContent(body, extraction)
           chunks == DocumentChunks(content.rawText)
           arrived == [req[r] EXCEPT !.kind = "docs",
                                     !.doc = [@ EXCEPT !.body = body,
                                                       !.extraction = extraction],
                                     !.calls = @ \cup content.calls]
       IN  req' = [req EXCEPT ![r] =
                    IF ~body.multipart /\ ~body.json
                    THEN JsonResponse([req[r] EXCEPT !.kind = "docs",
                                                     !.doc = [@ EXCEPT !.body = body]],
                                      Str(<<"Invalid document payload">>), 400)
                    ELSE IF content.threw
                    THEN JsonResponse(arrived, Str(content.error), 500)
                    ELSE IF Cleaned(content.rawText) = <<>>
                    THEN JsonResponse(arrived, Str(<<"Document content is required">>), 400)
                    ELSE IF chunks = <<>>
                    THEN JsonResponse(arrived,
                                      Str(<<"No textual content found to index">>), 400)
                    ELSE [arrived EXCEPT
                            !.pc = "embedding",
                            !.doc = [@ EXCEPT
                               !.body = body,
                               !.extraction = extraction,
                               !.title = content.title,
                               !.sourceType = content.sourceType,
                               !.docId = <<"doc", ToString(r)>>,
                               !.chunks = chunks]]]
  /\ UNCHANGED <<now, storage, log, issue, prior>>

\* generateEmbeddingsForChunks (index.ts 264-274): the embedding model
\* answers; an exception is answered 500 by the catch (284-290).
DocumentEmbed(r, inputs) ==
  /\ req[r].kind = "docs" /\ req[r].pc = "embedding"
  /\ \E answer \in inputs.embeddings :
       LET built == GenerateEmbeddingsForChunks(req[r].doc.chunks, answer,
                                                req[r].doc.docId)
           called == [req[r] EXCEPT !.calls = @ \cup {"embed"},
                                    !.doc = [@ EXCEPT !.answer = answer]]
       IN  req' = [req EXCEPT ![r] =
                    IF built.threw THEN JsonResponse(called, Str(built.error), 500)
                    ELSE [called EXCEPT !.pc = "upserting",
                                        !.doc = [@ EXCEPT !.answer = answer,
                                                          !.upserts = built.upserts]]]
  /\ UNCHANGED <<now, storage, log, issue, prior>>

\* env.VECTORIZE.upsert(upserts) and the 200 answer (index.ts 276-283).
DocumentUpsert(r) ==
  /\ req[r].kind = "docs" /\ req[r].pc = "upserting"
  /\ req' = [req EXCEPT ![r] =
              JsonResponse([@ EXCEPT !.calls = @ \cup {"upsert"},
                                     !.doc = [@ EXCEPT !.upserted = TRUE,
                                                       !.reported = Len(req[r].doc.upserts)]],
                           Undef, 200)]
  /\ UNCHANGED <<now, storage, log, issue, prior>>

\* The vector index refuses the upsert: the catch answers 500.
DocumentUpsertFails(r) ==
  /\ req[r].kind = "docs" /\ req[r].pc = "upserting"
  /\ req' = [req EXCEPT ![r] =
              JsonResponse([@ EXCEPT !.calls = @ \cup {"upsert"}],
                           Str(<<"Failed to index document">>), 500)]
  /\ UNCHANGED <<now, storage, log, issue, prior>>

\* A document of n characters.
Document(n) == [i \in 1..n |-> "x"]

\* The length of a document that chunkText cuts into k windows.
WindowsLength(k) == CHUNK_SIZE + (k - 1) * (CHUNK_SIZE - CHUNK_OVERLAP) - 1

DocBody(title, text) ==
  [json |-> TRUE, multipart |-> FALSE, title |-> title, text |-> text, file |-> NoFile]

\* A multipart form with its title and text fields and its file.
Multipart(title, text, file) ==
  [json |-> FALSE, multipart |-> TRUE, title |-> title, text |-> text, file |-> file]

\* Upload bodies, answers of the extraction model and answers of the
\* embedding model: for each chunk a vector or none, for any number of chunks.
DocInputs ==
  [docs |->
     {[json |-> FALSE, multipart |-> FALSE, title |-> Undef, text |-> Undef,
       file |-> NoFile],
      DocBody(Undef, Undef),
      DocBody(Str(<<"t">>), Str(<<" ", "\r", "\n">>)),
      DocBody(Str(<<" ", "t">>), Str(<<" ", "hello", " ", "world", "\r", "\n">>)),
      Multipart(Str(<<"t">>), Str(<<" ">>), NoFile),
      Multipart(Undef, Str(<<"note">>), NoFile)}
     \cup {DocBody(Undef, Str(Document(WindowsLength(k)))) : k \in 2..MaxDocWindows}
     \cup {Multipart(Str(<<"t">>), text, file) :
             text \in {Undef, Str(<<"note">>)},
             file \in {File(<<"notes", ".TXT">>, <<>>,
                            <<" ", "hello", " ", "world", "\r", "\n">>),
                       File(<<"blank", ".md">>, <<"TEXT/", "markdown">>, <<" ", "\n">>),
                       File(<<"lines", ".csv">>, <<>>,
                            <<"a", "\r", "\n", "\n", "\n", "\n", "b", " ">>),
                       File(<<"paper", ".pdf">>, <<"text/", "plain">>, <<"plain">>),
                       File(<<"paper", ".PDF">>, <<>>, <<"%PDF">>),
                       File(<<"scan">>, <<"application/pdf">>, <<"%PDF">>),
                       File(<<"photo", ".pdf">>, <<"image/", "png">>, <<"%PNG">>),
                       File(<<"photo">>, <<"IMAGE/", "png">>, <<"%PNG">>),
                       File(<<"photo", ".json">>, <<"image/", "png">>, <<"{}">>),
                       File(<<"setup", ".EXE">>, <<"application/octet-stream">>, <<"MZ">>),
                       File(<<"setup", ".EXE">>, <<>>, <<"MZ">>)}},
   extractions |->
     {Extraction("throws", <<>>),
      Extraction("text", <<" ", "\n">>),
      Extraction("text", <<" ", "scanned", " ", "text", "\n">>)},
   embeddings |->
     {[throws |-> TRUE, data |-> <<>>]}
     \cup {[throws |-> FALSE, data |-> data] :
             data \in UNION {[1..n -> {"vector", "missing"}] : n \in 0..MaxDocWindows}}]

NextDocs ==
  \/ DocumentRequest(1, DocInputs)
  \/ DocumentEmbed(1, DocInputs)
  \/ DocumentUpsert(1)
  \/ DocumentUpsertFails(1)

SpecDocs == Init /\ [][NextDocs]_vars

\* Concurrent uploads of JSON bodies of one or two chunks.
FewDocInputs ==
  [docs |-> {DocBody(Str(<<"t">>), Str(<<"hello", " ", "world">>)),
             DocBody(Undef, Str(Document(WindowsLength(2))))},
   extractions |-> {Extraction("throws", <<>>)},
   embeddings |-> {[throws |-> FALSE, data |-> data] :
                     data \in {<<"vector">>, <<"vector", "vector">>,
                                <<"missing", "vector">>}}]

NextUploads ==
  \E r \in Requests :
    \/ DocumentRequest(r, FewDocInputs)
    \/ DocumentEmbed(r, FewDocInputs)
    \/ DocumentUpsert(r)
    \/ DocumentUpsertFails(r)

SpecUploads == Init /\ [][NextUploads]_vars

\* chunkText(text, chunkSize, overlap) is called and returns.
ChunkTextCall(r, inputs) ==
  /\ req[r].pc = "idle"
  /\ \E call \in inputs :
       req' = [req EXCEPT ![r] =
                [@ EXCEPT !.kind = "chunkText", !.pc = "done",
                          !.chunker = [@ EXCEPT
                                         !.text = call.text,
                                         !.chunkSize = call.chunkSize,
                                         !.overlap = call.overlap,
                                         !.chunks = ChunkText(call.text, call.chunkSize,
                                                              call.overlap)]]]
  /\ UNCHANGED <<now, storage, log, issue, prior>>

\* A text of n characters, each of them its own.
Numbered(n) == [i \in 1..n |-> ToString(i)]

\* The length of the longest text whose every window fits under the chunk
\* cap at the default size and overlap.
CoveredLength == CHUNK_SIZE + (MAX_DOC_CHUNKS - 1) * (CHUNK_SIZE - CHUNK_OVERLAP)

\* Calls of chunkText: every short text of letters, blanks and newlines with
\* every small size and overlap, and longer texts, up to and beyond the
\* document size cap, with the default size and overlap.
ChunkCalls ==
  {[text |-> text, chunkSize |-> size, overlap |-> overlap] :
     text \in UNION {[1..n -> {"a", " ", "\n"}] : n \in 0..MaxChunkText}
               \cup {Numbered(MAX_DOC_CHUNKS + MaxChunkSize)},
     size \in 1..MaxChunkSize, overlap \in 0..MaxChunkSize}
  \cup
  {[text |-> text, chunkSize |-> CHUNK_SIZE, overlap |-> CHUNK_OVERLAP] :
     text \in {<<" ", "\n">>, <<" ", "hello", " ", "world", "\n">>}
               \cup {Numbered(n) : n \in {CHUNK_SIZE, WindowsLength(2),
                                           CoveredLength, CoveredLength + 1,
                                           DOCUMENT_MAX_CHARS}}}

NextChunks == ChunkTextCall(1, ChunkCalls)

SpecChunks == Init /\ [][NextChunks]_vars

\* chunkText is entered: the text is normalized and, unless nothing is left
\* of it, the loop starts at index 0 with no chunk.
ChunkTextEnter(r, inputs) ==
  /\ req[r].pc = "idle"
  /\ \E call \in inputs :
       LET normalized == Trim[CollapseNewlines[call.text]]
       IN  req' = [req EXCEPT ![r] =
                    [@ EXCEPT !.kind = "chunkText",
                              !.pc = IF normalized = <<>> THEN "done" ELSE "loop",
                              !.chunker = [text |-> call.text,
                                           chunkSize |-> call.chunkSize,
                                           overlap |-> call.overlap,
                                           normalized |-> normalized,
                                           step |-> ChunkStep(call.chunkSize, call.overlap),
                                           index |-> 0, iterations |-> 0,
                                           chunks |-> <<>>]]]
  /\ UNCHANGED <<now, storage, log, issue, prior>>

\* The test of the while loop of chunkText.
ChunkLoopGoesOn(chunker) ==
  chunker.index < Len(chunker.normalized) /\ Len(chunker.chunks) < MAX_DOC_CHUNKS

\* One iteration of the while loop of chunkText: the window at index is
\* trimmed and pushed unless empty; the loop breaks when the window reaches
\* the end of the text and otherwise moves on by step. The count of
\* iterations stops one past the length of the text.
ChunkTextIterate(r) ==
  /\ req[r].kind = "chunkText" /\ req[r].pc = "loop"
  /\ ChunkLoopGoesOn(req[r].chunker)
  /\ req[r].chunker.iterations <= Len(req[r].chunker.normalized)
  /\ LET chunker == req[r].chunker
         length == Len(chunker.normalized)
         reach == chunker.index + chunker.chunkSize
         slice == Trim[SubSeq(chunker.normalized, chunker.index + 1,
                              IF reach < length THEN reach ELSE length)]
     IN  req' = [req EXCEPT ![r] =
                  [@ EXCEPT !.pc = IF reach >= length THEN "done" ELSE "loop",
                            !.chunker = [chunker EXCEPT
                              !.iterations = @ + 1,
                              !.chunks = IF slice # <<>> THEN Append(@, slice) ELSE @,
                              !.index = IF reach >= length THEN @
                                        ELSE @ + chunker.step]]]
  /\ UNCHANGED <<now, storage, log, issue, prior>>

\* The test of the while loop fails and chunkText returns its chunks.
ChunkTextReturn(r) ==
  /\ req[r].kind = "chunkText" /\ req[r].pc = "loop"
  /\ ~ChunkLoopGoesOn(req[r].chunker)
  /\ req' = [req EXCEPT ![r] = [@ EXCEPT !.pc = "done"]]
  /\ UNCHANGED <<now, storage, log, issue, prior>>

\* The calls of chunkText whose loop is followed step by step: those with a
\* text of no more than two windows of the default size.
ChunkLoopCalls == {call \in ChunkCalls : Len(call.text) <= WindowsLength(2)}

NextChunkLoop ==
  \/ ChunkTextEnter(1, ChunkLoopCalls)
  \/ ChunkTextIterate(1)
  \/ ChunkTextReturn(1)

\* chunkText is synchronous code: once entered it runs on.
SpecChunkLoop ==
  /\ Init /\ [][NextChunkLoop]_vars
  /\ WF_vars(ChunkTextIterate(1))
  /\ WF_vars(ChunkTextReturn(1))

\* The pieces of a byte sequence cut after the given positions.
SplitAt(bytes, cuts) ==
  LET ends == SelectSeq([i \in 1..Len(bytes) |-> i],
                        LAMBDA i : i \in cuts \/ i = Len(bytes))
  IN  [k \in 1..Len(ends) |->
         SubSeq(bytes, IF k = 1 THEN 1 ELSE ends[k - 1] + 1, ends[k])]

\* Model streams as byte sequences: every sequence of up to MaxStreamBytes
\* bytes of a JSON line and of a two-byte character, and two longer streams
\* of several lines, the last without a newline.
StreamBytes ==
  UNION {[1..n -> {"{", "a", "}", "\n", "C3", "A9"}] : n \in 0..MaxStreamBytes}
  \cup {<<"{", "C3", "A9", "}", "\n", "{", "a", "}">>,
        <<" ", "{", "a", "}", "\r", "\n", "x", "\n", "\n", "{", "b", "}", " ">>}

\* captureAssistantResponse reads a model stream to its end; the reader is
\* given the stream in one chunk or cut into several, anywhere.
CaptureCall(r, streams) ==
  /\ req[r].pc = "idle"
  /\ \E bytes \in streams :
       \E cuts \in SUBSET (1..(Len(bytes) - 1)) :
         LET chunks == SplitAt(bytes, cuts)
         IN  req' = [req EXCEPT ![r] =
                      [@ EXCEPT !.kind = "capture", !.pc = "done",
                                !.upstream = chunks,
                                !.fullResponse = CaptureLoop(chunks, <<>>, <<>>, <<>>)]]
  /\ UNCHANGED <<now, storage, log, issue, prior>>

NextCapture == CaptureCall(1, StreamBytes)

SpecCapture == Init /\ [][NextCapture]_vars

\* The body of a POST /messages: not JSON, or JSON with or without a
\* message, whose role is a string ("" when it has none) and whose content
\* is a string or something else.
Post(present, role, content, modelId) ==
  [json |-> TRUE, present |-> present, role |-> role, content |-> content,
   modelId |-> modelId]

NoPost == [json |-> FALSE, present |-> FALSE, role |-> "", content |-> Undef,
           modelId |-> Undef]

\* The POST /messages handler's check (index.ts 921-927), on the body
\* safeJson returned: there is a message and its payload is valid.
PostAccepted(post) ==
  /\ post.json /\ post.present
  /\ ValidMessagePayload([role |-> post.role, content |-> post.content])

\* SessionDurableObject.fetch, POST /messages on the object of session s: a
\* refused body is answered 400 before the storage is touched; else
\* persistMessage reads the record, pushes the message and puts the record,
\* and the answer is 204.
SessionPost(r, inputs) ==
  /\ req[r].pc = "idle"
  /\ \A o \in Requests : o < r => req[o].pc # "idle"
  /\ \E s \in Sessions, post \in inputs :
       LET arrived == [req[r] EXCEPT !.kind = "session", !.sessionId = s,
                                     !.line = [method |-> "POST",
                                               path |-> <<"/messages">>],
                                     !.post = post]
           message == [role |-> post.role, content |-> post.content.v]
           got == GetSessionRecord(storage[s], now)
           session == PersistMessage(got.record, message,
                                     PostedModelId(post.modelId), now)
       IN  IF PostAccepted(post)
           THEN /\ storage' = [storage EXCEPT
                                 ![s] = [got.storage EXCEPT
                                           !.session = StoredRecord(session)]]
                /\ log' = [log EXCEPT
                             ![s] = Append(@, [req |-> r, message |-> message,
                                               contended |-> FALSE])]
                /\ req' = [req EXCEPT ![r] = Respond(arrived, 204)]
           ELSE /\ req' = [req EXCEPT
                             ![r] = JsonResponse(arrived,
                                                 Str(<<"Invalid message payload">>), 400)]
                /\ UNCHANGED <<storage, log>>
  /\ UNCHANGED <<now, issue, prior>>

\* SessionDurableObject.fetch, GET /messages: the record getSessionRecord
\* returns.
SessionGet(r) ==
  /\ req[r].pc = "idle"
  /\ \A o \in Requests : o < r => req[o].pc # "idle"
  /\ \E s \in Sessions :
       LET got == GetSessionRecord(storage[s], now)
       IN  /\ storage' = [storage EXCEPT ![s] = got.storage]
           /\ req' = [req EXCEPT ![r] =
                       JsonResponse([@ EXCEPT !.kind = "session", !.sessionId = s,
                                              !.line = [method |-> "GET",
                                                        path |-> <<"/messages">>],
                                              !.payload = got.record],
                                    Undef, 200)]
  /\ UNCHANGED <<now, log, issue, prior>>

\* SessionDurableObject.fetch, anything else: 404.
SessionOther(r) ==
  /\ req[r].pc = "idle"
  /\ \A o \in Requests : o < r => req[o].pc # "idle"
  /\ \E s \in Sessions, line \in {[method |-> "PUT", path |-> <<"/messages">>],
                                  [method |-> "POST", path |-> <<"/other">>]} :
       req' = [req EXCEPT ![r] =
                TextResponse([@ EXCEPT !.kind = "session", !.sessionId = s,
                                       !.line = line], 404)]
  /\ UNCHANGED <<now, storage, log, issue, prior>>

\* Bodies posted to a session's object: the messages appendMessage sends,
\* and bodies with no message, another role or a content that is no string.
SessionPosts ==
  {NoPost, Post(FALSE, "", Undef, Str(<<"m1">>)),
   Post(TRUE, "system", Str(SYSTEM_PROMPT), Undef),
   Post(TRUE, "assistant", Str(<<>>), Str(<<" ", "m1">>))}
  \cup {Post(TRUE, role, content, Undef) :
          role \in {"user", "assistant", "system", "tool", ""},
          content \in {Str(<<"hi">>), Undef}}

\* The runtime hands a request to the Worker's fetch.
Receive(r, inputs) ==
  /\ req[r].pc = "idle" /\ req[r].line.method = "none"
  /\ \A o \in Requests : o < r => req[o].pc # "idle"
  /\ \E line \in inputs.lines : req' = [req EXCEPT ![r] = [@ EXCEPT !.line = line]]
  /\ UNCHANGED <<now, storage, log, issue, prior>>

\* The branches of fetch that answer at once (index.ts 44-46, 50-52, 74, 84,
\* 88): static assets, method not allowed, not found.
Answer(r) ==
  LET route == RouteOf(req[r].line.method, req[r].line.path)
  IN  /\ req[r].pc = "idle" /\ req[r].line.method # "none"
      /\ route \in {"assets", "405", "404"}
      /\ req' = [req EXCEPT ![r] =
                  IF route = "assets"
                  THEN [Respond([@ EXCEPT !.kind = "assets",
                                          !.calls = @ \cup {"assets"}], 200)
                          EXCEPT !.response = [type |-> "asset", error |-> Undef]]
                  ELSE IF route = "405"
                  THEN TextResponse([@ EXCEPT !.kind = "api"], 405)
                  ELSE TextResponse([@ EXCEPT !.kind = "api"], 404)]
      /\ UNCHANGED <<now, storage, log, issue, prior>>

\* The Worker's fetch on a received request (index.ts 36-89).
Fetch(r, inputs) ==
  LET route == RouteOf(req[r].line.method, req[r].line.path)
  IN  /\ req[r].line.method # "none"
      /\ \/ route = "chat" /\ ChatRequest(r, inputs)
         \/ route = "history" /\ HistoryRequest(r, inputs)
         \/ route = "docs" /\ DocumentRequest(r, inputs)
         \/ Answer(r)

\* Request lines of every route and method, with a few bodies.
RouteInputs ==
  [lines |-> {[method |-> method, path |-> path] :
                method \in {"GET", "POST", "DELETE"},
                path \in {<<"/">>, <<"/index.html">>, <<"/api">>, <<"/api/">>,
                          <<"/api/", "history">>, <<"/api/", "docs">>,
                          <<"/api/", "chat">>, <<"/api/", "chat", "/">>,
                          <<"/api/", "sessions">>, <<"/chat">>}},
   bodies |-> FewInputs.bodies,
   historyIds |-> {Undef, Str(<<>>), Str(<<"A">>)},
   retrievals |-> FewInputs.retrievals,
   llm |-> FewInputs.llm \cup {Stream(500, << <<"#", "\n">> >>, "closed")},
   docs |-> FewDocInputs.docs \cup {DocBody(Undef, Undef)},
   extractions |-> FewDocInputs.extractions,
   embeddings |-> FewDocInputs.embeddings \cup {[throws |-> TRUE, data |-> <<>>]}]

\* One request from its receipt to its end.
NextRoutes ==
  \/ Receive(1, RouteInputs)
  \/ Fetch(1, RouteInputs)
  \/ LoadHistory(1)
  \/ LoadHistoryFails(1)
  \/ PersistBegin(1)
  \/ PersistEnd(1)
  \/ PersistFails(1)
  \/ Retrieve(1, RouteInputs)
  \/ Invoke(1, RouteInputs)
  \/ ClientRead(1)
  \/ ClientCancel(1)
  \/ CaptureRead(1)
  \/ HistoryLoad(1)
  \/ HistoryLoadFails(1)
  \/ DocumentEmbed(1, RouteInputs)
  \/ DocumentUpsert(1)
  \/ DocumentUpsertFails(1)

SpecRoutes == Init /\ [][NextRoutes]_vars

\* Time passes: a later new Date() gives a later timestamp.
Tick ==
  /\ now < MaxNow
  /\ now' = now + 1
  /\ UNCHANGED <<storage, req, log, issue, prior>>

\* Reads of the history of the sessions, at different times.
HistoryInputs == [historyIds |-> {Undef, Str(<<"A">>), Str(<<"B">>)}]

NextHistory ==
  \/ Tick
  \/ \E r \in Requests :
       \/ HistoryRequest(r, HistoryInputs)
       \/ HistoryLoad(r)
       \/ HistoryLoadFails(r)

SpecHistory == Init /\ [][NextHistory]_vars

\* Requests made of the objects of the sessions directly.
NextSession ==
  \E r \in Requests :
    \/ SessionPost(r, SessionPosts)
    \/ SessionGet(r)
    \/ SessionOther(r)

SpecSession == Init /\ [][NextSession]_vars

\* One chat turn under the scheduling the runtime gives the background task
\* registered with ctx.waitUntil and the session object: each runs on.
FairTurn ==
  /\ SpecTurn
  /\ WF_vars(CaptureRead(1))
  /\ WF_vars(PersistBegin(1))
  /\ WF_vars(PersistEnd(1))

\* ------------------------------------------------------------ the properties
IsPrefix(a, b) == Len(a) <= Len(b) /\ SubSeq(b, 1, Len(a)) = a

UserMessage(r) == [role |-> "user", content |-> req[r].message]

StoredMessages(s) == storage[s].session.messages

\* The request is a valid chat turn that has reached retrieval or beyond.
PastUserAppend(rq) ==
  /\ rq.kind = "chat"
  /\ rq.pc \in {"retrieving", "invoking"} \/ rq.calls \cap {"embed", "query", "llm"} # {}

\* C1: once a valid chat turn is at retrieval or beyond (retrieval started,
\* the LLM called, the response streaming, failed or not), its user message
\* is in the session's stored record: it was appended first and is never
\* rolled back.
C1_UserMessageStoredFirst ==
  \A r \in Requests :
    PastUserAppend(req[r]) =>
      /\ storage[req[r].sessionId].session.shape = "record"
      /\ UserMessage(r) \in Range(StoredMessages(req[r].sessionId))

\* A turn whose LLM call failed with 500 and whose user message is stored.
C1_Witness ==
  /\ req[1].status = 500
  /\ "llm" \in req[1].calls
  /\ UserMessage(1) \in Range(StoredMessages(req[1].sessionId))

\* The reply a model stream carries: the response fragments of its lines, in
\* order; a stream that fails carries only its newline-terminated lines.
NdjsonReply(text, closed) ==
  LET lines == SplitLines[text]
  IN  LinesFragments[IF closed THEN lines ELSE SubSeq(lines, 1, Len(lines) - 1)]

AssistantAppends(r) ==
  {i \in 1..Len(log[req[r].sessionId]) :
     /\ log[req[r].sessionId][i].req = r
     /\ log[req[r].sessionId][i].message.role = "assistant"}

\* C2: the assistant message appended for a turn is the concatenation, in
\* order, of the response fragments of the lines of the model stream; the
\* append starts only after the capture has read the stream to its end, and
\* only when that concatenation is not empty; there is at most one.
C2_AssistantIsStreamConcatenation ==
  \A r \in Requests :
    req[r].cap # "none" =>
      LET reply == NdjsonReply(Flatten(req[r].upstream), req[r].sourceEnd = "closed")
          ended == /\ req[r].source = <<>>
                   /\ req[r].storageQ = <<>>
                   /\ req[r].teeEnd # "open"
          s == req[r].sessionId
      IN  /\ req[r].cap \in {"appending", "done"} =>
               ended /\ req[r].fullResponse = reply
          /\ req[r].cap = "appending" => reply # <<>>
          /\ req[r].capResult = "empty" => reply = <<>>
          /\ \A i \in AssistantAppends(r) :
               /\ log[s][i].message.content = reply
               /\ reply # <<>>
               /\ req[r].capResult = "stored"
          /\ Cardinality(AssistantAppends(r)) =
               IF req[r].capResult = "stored" THEN 1 ELSE 0

\* A reply stored from a stream whose first line was split across two reads
\* and whose last line had no newline.
C2_Witness ==
  /\ req[1].capResult = "stored"
  /\ Len(req[1].upstream) = 2
  /\ req[1].upstream[1] = <<"{", "a">>
  /\ StoredMessages(req[1].sessionId)[Len(StoredMessages(req[1].sessionId))]
       = [role |-> "assistant", content |-> <<"a", "b">>]

\* C3: at every moment the bytes the capture has read are a prefix of the
\* upstream bytes, and the bytes the client has received are a prefix of
\* the context line (if any) followed by the upstream bytes; a reader that
\* has reached the end has read all of them.
C3_BothCopiesSeeUpstream ==
  \A r \in Requests :
    LET bytes == Flatten(req[r].upstream)
        outbound == ContextLine(req[r].snippets) \o bytes
    IN  /\ IsPrefix(req[r].capSeen, bytes)
        /\ IsPrefix(req[r].clientOut, outbound)
        /\ req[r].cap \in {"appending", "done"} => req[r].capSeen = bytes
        /\ req[r].client \in {"ended", "errored"} => req[r].clientOut = outbound

\* The client has received the context line and the whole model response
\* while the capture has not read a byte yet.
C3_Witness ==
  /\ req[1].client = "ended"
  /\ req[1].snippets # <<>>
  /\ Len(req[1].upstream) = 2
  /\ req[1].cap = "reading"
  /\ req[1].capSeen = <<>>

\* C4: once the client has disconnected from a stream that ends, the capture
\* eventually finishes having read the whole stream, and unless the store
\* refused the write the full reply, when not empty, is in the session.
C4_CaptureDrainsAfterDisconnect ==
  (req[1].client = "cancelled" /\ req[1].sourceEnd = "closed")
    ~> /\ req[1].cap = "done"
       /\ req[1].capSeen = Flatten(req[1].upstream)
       /\ req[1].capResult \in {"stored", "empty", "rejected"}
       /\ req[1].capResult = "empty" =>
            NdjsonReply(Flatten(req[1].upstream), TRUE) = <<>>
       /\ req[1].capResult = "stored" =>
            [role |-> "assistant",
             content |-> NdjsonReply(Flatten(req[1].upstream), TRUE)]
              \in Range(StoredMessages(req[1].sessionId))

\* The client disconnected before reading anything and the reply is stored.
C4_Witness ==
  /\ req[1].client = "cancelled"
  /\ req[1].clientOut = <<>>
  /\ req[1].capResult = "stored"
  /\ Len(req[1].upstream) = 2

\* The messages of the appends the session's object has completed, in order.
LogMessages(s) == [i \in 1..Len(log[s]) |-> log[s][i].message]

\* What GET /api/history returns for a session whose storage is st.
ReadBack(st) == FetchSessionHistory(GetSessionRecord(st, now).record).messages

\* C5: a read of any session returns at most MAX_HISTORY messages, and once
\* a session that held some prior messages (25, say) has been appended to,
\* its history is the MAX_HISTORY most recent of the prior messages followed
\* by the appended ones.
C5_HistoryIsMostRecentTwenty ==
  \A s \in Sessions :
    /\ Len(ReadBack(storage[s])) <= MAX_HISTORY
    /\ storage[s].session.shape = "record" => Len(StoredMessages(s)) <= MAX_HISTORY
    /\ (log[s] # <<>> /\ InputGateOpen(s)) =>
         ReadBack(storage[s]) = SliceLast(prior[s] \o LogMessages(s), MAX_HISTORY)

\* C6: the step that completes an append of m to a session whose readable
\* history is h leaves a session whose read returns the last MAX_HISTORY
\* elements of h followed by m.
C6_AppendThenReadRoundTrip ==
  [][\A s \in Sessions :
       log'[s] # log[s] =>
         ReadBack(storage'[s]) =
           SliceLast(Append(GetSessionRecord(storage[s], now).record.messages,
                            log'[s][Len(log'[s])].message),
                     MAX_HISTORY)]_vars

\* An append to a full session: the oldest prior message is gone, the rest
\* kept their order and the new message is last.
C6_Witness ==
  \E s \in Sessions :
    /\ Len(log[s]) = 1
    /\ Len(prior[s]) >= MAX_HISTORY
    /\ storage[s].session.shape = "record"
    /\ StoredMessages(s) =
         SubSeq(prior[s], Len(prior[s]) - MAX_HISTORY + 2, Len(prior[s]))
         \o <<log[s][1].message>>

\* The appends are in issue order: an earlier turn's messages precede a
\* later turn's, and a turn's user message precedes its assistant message.
InIssueOrder(appends) ==
  \A i, j \in 1..Len(appends) :
    i < j =>
      \/ appends[i].req < appends[j].req
      \/ /\ appends[i].req = appends[j].req
         /\ appends[i].message.role = "user"
         /\ appends[j].message.role = "assistant"

\* C7: when every turn of a session was sent after the client had received
\* the whole response of the turns before it, the session's messages were
\* appended in issue order.
C7_SequentialTurnsInIssueOrder ==
  \A s \in Sessions :
    issue[s] \in {"quiescent", "afterClient"} => InIssueOrder(log[s])

RetrievalFailed(outcome) ==
  \/ outcome.embed # "ok"
  \/ outcome.query = "throws"
  \/ \A i \in 1..Len(outcome.matches) :
       ~ /\ outcome.matches[i].present
         /\ outcome.matches[i].text.t = "string"
         /\ \E k \in 1..Len(outcome.matches[i].text.v) :
              outcome.matches[i].text.v[k] \notin Whitespace

\* C9: a chat turn whose retrieval failed has an empty context, goes on to
\* the LLM call, and calls the LLM with the system prompt, the history and
\* the user message only.
C9_RetrievalFailureNeverFailsTurn ==
  \A r \in Requests :
    (req[r].kind = "chat" /\ "embed" \in req[r].calls
       /\ RetrievalFailed(req[r].retrieval)) =>
      /\ req[r].promptMessages = <<>>
      /\ req[r].snippets = <<>>
      /\ req[r].pc = "invoking" \/ "llm" \in req[r].calls
      /\ "llm" \in req[r].calls =>
           req[r].llmMessages =
             <<[role |-> "system", content |-> SYSTEM_PROMPT]>>
             \o req[r].history \o <<UserMessage(r)>>

\* The vector query threw and the turn streamed the model's answer.
C9_Witness ==
  /\ req[1].retrieval.embed = "ok"
  /\ req[1].retrieval.query = "throws"
  /\ "llm" \in req[1].calls
  /\ req[1].status = 200

Blank(value) ==
  value.t # "string" \/ \A i \in 1..Len(value.v) : value.v[i] \in Whitespace

\* C10: a chat request whose body is not JSON, or has a blank sessionId or
\* a blank message, is answered 400 having made no capability call (session
\* read, session write, embedding, vector query, LLM); it appends nothing,
\* and when it is the only request the storage is as it was at the start.
C10_InvalidBodyIs400 ==
  \A r \in Requests :
    (req[r].kind = "chat"
       /\ (~req[r].body.json \/ Blank(req[r].body.sessionId)
             \/ Blank(req[r].body.message))) =>
      /\ req[r].status = 400
      /\ req[r].pc = "done"
      /\ req[r].calls = {}
      /\ req[r].cap = "none" /\ req[r].client = "none"
      /\ \A s \in Sessions : \A i \in 1..Len(log[s]) : log[s][i].req # r
      /\ (\A o \in Requests \ {r} : req[o].pc = "idle") => storage \in InitialStorages

\* A JSON body with a session id and a message of spaces was answered 400.
C10_Witness ==
  /\ req[1].status = 400
  /\ req[1].body.json
  /\ req[1].body.sessionId = Str(<<"A">>)
  /\ req[1].body.message = Str(<<" ", " ">>)

\* A valid chat turn in which a step from loading the history to the LLM
\* invocation failed: it ended before the LLM was called, or the LLM call
\* threw, returned no body, or returned an error status.
TurnFailed(rq) ==
  /\ rq.kind = "chat" /\ rq.pc = "done"
  /\ ~ (~rq.body.json \/ Blank(rq.body.sessionId) \/ Blank(rq.body.message))
  /\ \/ "llm" \notin rq.calls
     \/ rq.cap = "none"
     \/ rq.status >= 400

\* C11: a chat turn in which a step from loading the history to the LLM
\* invocation failed is answered with one JSON error of status 500 (no
\* stream is handed to the client) and is abandoned: no capture runs and no
\* assistant message is appended for it.
C11_FailedTurnIsSingle500 ==
  \A r \in Requests :
    TurnFailed(req[r]) =>
      /\ req[r].status = 500
      /\ req[r].client = "none" /\ req[r].clientOut = <<>>
      /\ req[r].cap = "none"
      /\ AssistantAppends(r) = {}

\* C12: the client's stream holds a context line exactly when the turn's
\* snippet list is not empty; the line is the first thing delivered, before
\* any byte of the model response, and it occurs once; with no snippets the
\* stream holds model bytes only.
C12_ContextLineLeadsStream ==
  \A r \in Requests :
    req[r].client # "none" =>
      LET out == req[r].clientOut
          marks == {i \in 1..Len(out) : out[i] = "[context"}
      IN  IF req[r].snippets = <<>>
          THEN /\ marks = {}
               /\ IsPrefix(out, Flatten(req[r].upstream))
          ELSE \/ out = <<>>
               \/ /\ marks = {1}
                  /\ IsPrefix(ContextLine(req[r].snippets), out)
                  /\ out[Len(ContextLine(req[r].snippets))] = "\n"
                  /\ IsPrefix(SubSeq(out, Len(ContextLine(req[r].snippets)) + 1, Len(out)),
                              Flatten(req[r].upstream))

\* The client has the context line of a full snippet list and then model
\* bytes, and is still reading.
C12_Witness ==
  /\ Len(req[1].snippets) = MAX_CONTEXT_CHUNKS
  /\ req[1].client = "reading"
  /\ Len(req[1].clientOut) > Len(ContextLine(req[1].snippets))
  /\ req[1].clientOut[1] = "[context"

\* The model id stored for session s before the first request, as a read
\* reports it, when st is the storage the run started from.
StartedFrom(st, s) ==
  /\ st \in InitialStorages
  /\ GetSessionRecord(st[s], 1).record.messages = prior[s]

\* C13: the model id of a turn's LLM call is the request's modelId, trimmed,
\* when that is a non-blank string; else the modelId stored for the session
\* when the turn began, when that is non-blank; else the default.
C13_EffectiveModelByPriority ==
  \A r \in Requests :
    (req[r].kind = "chat" /\ "llm" \in req[r].calls) =>
      \E st \in InitialStorages :
        /\ StartedFrom(st, req[r].sessionId)
        /\ LET stored == GetSessionRecord(st[req[r].sessionId], 1).record.modelId
           IN  req[r].llmModelId =
                 IF ~Blank(req[r].body.modelId) THEN Trim[req[r].body.modelId.v]
                 ELSE IF ~Blank(stored) THEN Trim[stored.v]
                 ELSE DEFAULT_MODEL_ID

\* A turn that names a model ran with it on a session that stores another.
C13_Witness ==
  /\ "llm" \in req[1].calls
  /\ req[1].body.modelId = Str(<<" ", "m1">>)
  /\ req[1].historyModelId = Str(<<"m0">>)
  /\ req[1].llmModelId = <<"m1">>

\* The turns of session s that have called the LLM.
TurnsRun(s) ==
  {r \in Requests : req[r].kind = "chat" /\ req[r].sessionId = s
                    /\ "llm" \in req[r].calls}

\* What GET /api/history reports as the model of a session whose storage
\* is st.
ReadBackModel(st) == FetchSessionHistory(GetSessionRecord(st, now).record).modelId

\* C14: when the turns of session s were sent one at a time, (a) a turn
\* that names no model and follows directly a turn that ran with model X
\* runs with X, and (b) once the last turn sent for s has run with X, a
\* read of the session reports modelId X.
C14_SessionRemembersModel ==
  \A s \in Sessions :
    issue[s] # "overlapping" =>
      /\ \A r1, r2 \in Requests :
           ( /\ r1 < r2 /\ r1 \in TurnsRun(s)
             /\ \A o \in Requests : (r1 < o /\ o < r2) =>
                                      ~(req[o].kind = "chat" /\ req[o].sessionId = s)
             /\ req[r2].kind = "chat" /\ req[r2].sessionId = s
             /\ Blank(req[r2].body.modelId)
             /\ req[r2].sessionModelId # <<>> )
           => req[r2].sessionModelId = req[r1].llmModelId
      /\ \A r \in TurnsRun(s) :
           ( /\ \A o \in Requests :
                  o > r => ~(req[o].kind = "chat" /\ req[o].sessionId = s)
             /\ InputGateOpen(s) )
           => ReadBackModel(storage[s]) = Str(req[r].llmModelId)

\* C15: the list sent to the LLM is the system prompt, then one system
\* message with the reference material exactly when snippets were found,
\* then the MAX_HISTORY most recent messages the session held before this
\* turn, then the turn's user message, which occurs once, as the last element.
C15_LlmMessagesOrder ==
  \A r \in Requests :
    (req[r].kind = "chat" /\ "llm" \in req[r].calls) =>
      LET sent == req[r].llmMessages
          context == req[r].promptMessages
      IN  /\ Len(context) = (IF req[r].snippets = <<>> THEN 0 ELSE 1)
          /\ \A i \in 1..Len(context) :
               /\ context[i].role = "system"
               /\ context[i].content[1] = "reference-material"
          /\ sent = <<[role |-> "system", content |-> SYSTEM_PROMPT]>>
                    \o context
                    \o SliceLast(prior[req[r].sessionId], MAX_HISTORY)
                    \o <<UserMessage(r)>>
          /\ Cardinality({i \in 1..Len(sent) : sent[i] = UserMessage(r)}) = 1

\* The LLM was called with the system prompt, a context message, a history
\* cut to MAX_HISTORY messages and the user message.
C15_Witness ==
  /\ "llm" \in req[1].calls
  /\ req[1].snippets # <<>>
  /\ Len(prior[req[1].sessionId]) > MAX_HISTORY
  /\ Len(req[1].llmMessages) = MAX_HISTORY + 3

\* The handler answered the chat request with its own JSON error.
Errored(rq) ==
  rq.kind = "chat" /\ rq.status \in {400, 500} /\ rq.cap = "none"

\* The orchestrator state of a chat request: 1 LoadingHistory (with the
\* user-message append), 2 Retrieving, 3 Invoking, 4 Streaming (the model
\* stream is being drained), 5 Persisting, 6 Done; 0 before it arrives.
Phase(rq) ==
  IF rq.kind # "chat" THEN 0
  ELSE IF rq.cap = "reading" THEN 4
  ELSE IF rq.cap = "appending" THEN 5
  ELSE IF rq.cap = "done" THEN 6
  ELSE IF rq.pc \in {"loading", "appendUser"} THEN 1
  ELSE IF rq.pc = "retrieving" THEN 2
  ELSE IF rq.pc = "invoking" THEN 3
  ELSE 0

\* C16: a step of a chat request leaves it in its state or moves it to the
\* next one (Streaming may go straight to Done when there is no reply to
\* persist), or to Errored; a request that has errored takes no further
\* step: no store write, no LLM call, no stream output.
C16_StatesInOrder ==
  [][\A r \in Requests :
       /\ Errored(req[r]) => UNCHANGED <<req, storage, log>>
       /\ (req'[r].kind = "chat" /\ ~Errored(req'[r])) =>
            \/ Phase(req'[r]) = Phase(req[r])
            \/ Phase(req'[r]) = Phase(req[r]) + 1
            \/ Phase(req[r]) = 4 /\ Phase(req'[r]) = 6
       /\ Errored(req'[r]) => Phase(req[r]) \in 0..3]_vars

\* A turn went through every state and its reply is stored.
C16_Witness ==
  /\ Phase(req[1]) = 6
  /\ req[1].capResult = "stored"
  /\ req[1].snippets # <<>>
  /\ req[1].client = "ended"

\* C17: reading a session never loses messages: whatever reads and appends
\* have happened, a read returns the MAX_HISTORY most recent of the messages
\* the session held at the start (in whatever shape they were stored)
\* followed by the messages appended since.
C17_LegacyArraySurvivesReads ==
  \A s \in Sessions :
    InputGateOpen(s) =>
      ReadBack(storage[s]) = SliceLast(prior[s] \o LogMessages(s), MAX_HISTORY)

\* C18: two GET /api/history requests for the same session, both answered,
\* with no write to the session between them, carry the same payload:
\* messages, modelId, createdAt and updatedAt.
C18_HistoryReadIdempotent ==
  \A r1, r2 \in Requests :
    ( /\ req[r1].kind = "history" /\ req[r1].status = 200
      /\ req[r2].kind = "history" /\ req[r2].status = 200
      /\ req[r1].sessionId = req[r2].sessionId
      /\ log[req[r1].sessionId] = <<>> )
    => req[r1].payload = req[r2].payload

C20_ChunkIndexesDense ==
  \A r \in Requests :
    req[r].kind = "docs" /\ req[r].doc.upserted =>
      \A i \in 1..Len(req[r].doc.upserts) :
        req[r].doc.upserts[i].chunkIndex = i - 1

\* An upload whose embedding call returned: what the model answered it.
Embedded(rq) ==
  rq.kind = "docs" /\ "embed" \in rq.calls /\ ~rq.doc.answer.throws

\* C21: when the embedding model returns a number of entries different from
\* the number of chunks submitted, the upload is answered 500 with the
\* count-mismatch error and the vector index is never asked to upsert.
C21_CountMismatchFailsUpload ==
  \A r \in Requests :
    Embedded(req[r]) /\ Len(req[r].doc.answer.data) # Len(req[r].doc.chunks) =>
      /\ req[r].pc = "done" /\ req[r].status = 500
      /\ req[r].response =
           [type |-> "json",
            error |-> Str(<<"Embedding response length",
                            ToString(Len(req[r].doc.answer.data)),
                            "did not match chunk count",
                            ToString(Len(req[r].doc.chunks))>>)]
      /\ "upsert" \notin req[r].calls
      /\ req[r].doc.upserts = <<>> /\ ~req[r].doc.upserted

C21_Witness ==
  /\ Embedded(req[1]) /\ req[1].pc = "done"
  /\ Len(req[1].doc.chunks) = 2
  /\ req[1].doc.answer.data = <<"vector">>

\* The positions (1-based) of the chunks that got a vector.
WithVector(rq) ==
  {i \in 1..Len(rq.doc.answer.data) : rq.doc.answer.data[i] = "vector"}

\* C22: when the embedding answer has one entry per chunk, the upload fails
\* with 500 and without an upsert if no entry carries a vector; if some do,
\* the records built are exactly those of the chunks with a vector, and the
\* upload whose upsert went through is answered 200.
C22_SkipsOnlyChunksWithoutEmbedding ==
  \A r \in Requests :
    Embedded(req[r]) /\ Len(req[r].doc.answer.data) = Len(req[r].doc.chunks) =>
      IF WithVector(req[r]) = {}
      THEN /\ req[r].pc = "done" /\ req[r].status = 500
           /\ req[r].response.error.t = "string"
           /\ "upsert" \notin req[r].calls /\ ~req[r].doc.upserted
      ELSE /\ req[r].pc \in {"upserting", "done"}
           /\ {rec.chunkIndex + 1 : rec \in Range(req[r].doc.upserts)} = WithVector(req[r])
           /\ Len(req[r].doc.upserts) = Cardinality(WithVector(req[r]))
           /\ \A rec \in Range(req[r].doc.upserts) :
                rec.text = SliceFirst(req[r].doc.chunks[rec.chunkIndex + 1],
                                      EMBEDDING_MAX_CHARS)
           /\ req[r].doc.upserted => req[r].status = 200
           /\ req[r].pc = "done" => "upsert" \in req[r].calls

C22_Witness ==
  /\ Embedded(req[1]) /\ req[1].doc.upserted /\ req[1].status = 200
  /\ req[1].doc.answer.data = <<"vector", "missing", "vector">>
  /\ Len(req[1].doc.upserts) = 2

\* An upload of a multipart form whose file is neither text-like, PDF nor
\* image, answered.
UnsupportedUpload(rq) ==
  /\ rq.kind = "docs" /\ rq.pc = "done"
  /\ rq.doc.body.multipart /\ rq.doc.body.file.present
  /\ FileKind(rq.doc.body.file) = "unsupported"

\* C23: an upload whose file cannot be classified as text, PDF or image is
\* answered 400 with an error that names the unsupported type, and no vector
\* record is created.
C23_UnsupportedFileIs400 ==
  \A r \in Requests :
    UnsupportedUpload(req[r]) =>
      /\ req[r].status = 400
      /\ req[r].response.type = "json" /\ req[r].response.error.t = "string"
      /\ Head(req[r].response.error.v) = "Unsupported file type"
      /\ req[r].calls = {} /\ req[r].doc.upserts = <<>>

\* An upload that was read without an exception: its title, text and kind.
ContentOf(rq) == DocumentContent(rq.doc.body, rq.doc.extraction)

Readable(rq) ==
  /\ rq.kind = "docs" /\ (rq.doc.body.multipart \/ rq.doc.body.json)
  /\ ~ContentOf(rq).threw

\* C24: an upload whose combined text is empty once its line endings are
\* normalised and it is trimmed, or that gives no non-empty chunk, is answered
\* 400, and neither the embedding model nor the vector index is called.
C24_EmptyDocumentIs400 ==
  \A r \in Requests :
    /\ Readable(req[r])
    /\ \/ Trim[ReplaceCrLf[ContentOf(req[r]).rawText]] = <<>>
       \/ DocumentChunks(ContentOf(req[r]).rawText) = <<>>
    => /\ req[r].pc = "done" /\ req[r].status = 400
       /\ req[r].response.type = "json" /\ req[r].response.error.t = "string"
       /\ "embed" \notin req[r].calls /\ "upsert" \notin req[r].calls
       /\ req[r].doc.upserts = <<>>

C24_Witness ==
  /\ Readable(req[1]) /\ req[1].status = 400
  /\ req[1].doc.body.file.present
  /\ req[1].doc.body.file.text = <<" ", "\n">>
  /\ req[1].doc.body.text.t = "undefined"

\* An upload answered 200.
Uploaded(rq) == rq.kind = "docs" /\ rq.pc = "done" /\ rq.status = 200

\* C25: a successful upload has made its one upsert, of one record per chunk
\* with a vector; the records carry the upload's document id, which no other
\* upload has, and pairwise distinct ids docId#chunkIndex; the response
\* reports as many chunks as records were upserted.
C25_SuccessfulUploadUpsertsOnce ==
  \A r \in Requests :
    Uploaded(req[r]) =>
      LET upserts == req[r].doc.upserts
      IN  /\ "upsert" \in req[r].calls /\ req[r].doc.upserted
          /\ Len(upserts) = Cardinality(WithVector(req[r]))
          /\ {rec.chunkIndex + 1 : rec \in Range(upserts)} = WithVector(req[r])
          /\ \A rec \in Range(upserts) :
               /\ rec.docId = req[r].doc.docId
               /\ rec.id = req[r].doc.docId \o <<"#", ToString(rec.chunkIndex)>>
          /\ \A i, j \in 1..Len(upserts) : i # j => upserts[i].id # upserts[j].id
          /\ req[r].doc.reported = Len(upserts)
          /\ \A o \in Requests \ {r} :
               req[o].kind = "docs" => req[o].doc.docId # req[r].doc.docId

C25_Witness ==
  /\ Uploaded(req[1]) /\ Uploaded(req[2])
  /\ Len(req[1].doc.upserts) = 2 /\ Len(req[2].doc.upserts) = 2

\* A call of chunkText that returned.
Chunked(rq) == rq.kind = "chunkText" /\ rq.pc = "done"

\* The normalized text chunkText cuts.
Normalized(text) == Trim[CollapseNewlines[text]]

\* C26: for a document no longer than the document size cap, chunked with
\* the default size and overlap, every non-blank character of the normalized
\* text is in some chunk.
C26_ChunksCoverDocument ==
  \A r \in Requests :
    /\ Chunked(req[r])
    /\ req[r].chunker.chunkSize = CHUNK_SIZE /\ req[r].chunker.overlap = CHUNK_OVERLAP
    /\ Len(req[r].chunker.text) <= DOCUMENT_MAX_CHARS
    => Range(Normalized(req[r].chunker.text)) \ Whitespace
         \subseteq UNION {Range(chunk) : chunk \in Range(req[r].chunker.chunks)}

\* C27: for every text and every size and overlap with 0 < overlap < size,
\* chunkText returns at most MAX_DOC_CHUNKS chunks, each with a non-blank
\* character at both ends; a blank text gives no chunk.
C27_ChunksCappedAndNonBlank ==
  \A r \in Requests :
    /\ Chunked(req[r])
    /\ 0 < req[r].chunker.overlap /\ req[r].chunker.overlap < req[r].chunker.chunkSize
    => /\ Len(req[r].chunker.chunks) <= MAX_DOC_CHUNKS
       /\ \A chunk \in Range(req[r].chunker.chunks) :
            /\ chunk # <<>>
            /\ Range(chunk) \ Whitespace # {}
       /\ Range(req[r].chunker.text) \subseteq Whitespace =>
            req[r].chunker.chunks = <<>>

C27_Witness ==
  /\ Chunked(req[1])
  /\ req[1].chunker.chunkSize = MaxChunkSize /\ req[1].chunker.overlap = MaxChunkSize - 1
  /\ Len(req[1].chunker.text) > MAX_DOC_CHUNKS
  /\ Len(req[1].chunker.chunks) = MAX_DOC_CHUNKS

\* A request the Worker has answered, on a path under /api/.
AnsweredApi(rq) ==
  /\ rq.line.method # "none" /\ rq.status # 0
  /\ rq.line.path # <<>> /\ Head(rq.line.path) = "/api/"

\* C28: every response of an /api/ route with status 400, 404, 405 or 500
\* has a JSON body with an error message.
C28_ErrorResponsesAreJson ==
  \A r \in Requests :
    AnsweredApi(req[r]) /\ req[r].status \in {400, 404, 405, 500} =>
      req[r].response.type = "json" /\ req[r].response.error.t = "string"

\* The capabilities behind the API: the session store, the AI models and the
\* vector index.
BackendCalls == {"read", "write", "embed", "query", "llm", "extract", "upsert"}

\* C29: the routing of the interface table. GET /api/history without a
\* sessionId is answered 400 and any other method on it 405; any method but
\* POST on /api/chat and /api/docs is answered 405; any other path under
\* /api/ is answered 404; a path not under /api/ goes to the static assets
\* and calls neither the session store, the AI models nor the vector index.
C29_RoutingFollowsInterfaceTable ==
  \A r \in Requests :
    LET method == req[r].line.method
        path == req[r].line.path
        api == path # <<>> /\ Head(path) = "/api/"
    IN  method # "none" /\ req[r].pc # "idle" =>
          /\ path = <<"/api/", "history">> /\ method # "GET" => req[r].status = 405
          /\ path = <<"/api/", "history">> /\ method = "GET" =>
               /\ req[r].kind = "history"
               /\ req[r].sessionId = <<>> => req[r].status = 400
          /\ path \in {<<"/api/", "chat">>, <<"/api/", "docs">>} /\ method # "POST" =>
               req[r].status = 405
          /\ path = <<"/api/", "chat">> /\ method = "POST" => req[r].kind = "chat"
          /\ path = <<"/api/", "docs">> /\ method = "POST" => req[r].kind = "docs"
          /\ api /\ path \notin {<<"/api/", "history">>, <<"/api/", "chat">>,
                                 <<"/api/", "docs">>} => req[r].status = 404
          /\ req[r].status \in {404, 405} => req[r].calls = {}
          /\ ~api => /\ req[r].kind = "assets"
                     /\ req[r].pc = "done"
                     /\ req[r].calls \cap BackendCalls = {}

C29_Witness ==
  /\ req[1].line = [method |-> "POST", path |-> <<"/api">>]
  /\ req[1].kind = "assets" /\ req[1].calls = {"assets"}

\* The matches of a retrieval that carry a non-blank text, in ranked order.
UsableMatches(outcome) ==
  IF outcome.embed = "ok" /\ outcome.query = "ok"
  THEN SelectSeq(outcome.matches,
                 LAMBDA match : match.present /\ match.text.t = "string"
                                /\ Range(match.text.v) \ Whitespace # {})
  ELSE <<>>

\* C30: buildRetrievalContext returns at most MAX_CONTEXT_CHUNKS snippets,
\* which are the first usable matches in the order the vector index ranked
\* them, each with a non-empty trimmed text, and it returns a prompt fragment
\* exactly when it returns a snippet.
C30_SnippetsAreFirstUsableMatches ==
  \A r \in Requests :
    req[r].kind = "chat" /\ req[r].retrieval.embed # "none" =>
      LET snippets == req[r].snippets
          usable == UsableMatches(req[r].retrieval)
      IN  /\ Len(snippets) <= MAX_CONTEXT_CHUNKS
          /\ Len(snippets) = IF Len(usable) < MAX_CONTEXT_CHUNKS
                             THEN Len(usable) ELSE MAX_CONTEXT_CHUNKS
          /\ \A i \in 1..Len(snippets) :
               /\ snippets[i].text = Trim[usable[i].text.v]
               /\ snippets[i].text # <<>>
               /\ Head(snippets[i].text) \notin Whitespace
               /\ snippets[i].text[Len(snippets[i].text)] \notin Whitespace
          /\ (req[r].promptMessages # <<>>) <=> (snippets # <<>>)

C30_Witness ==
  /\ req[1].kind = "chat" /\ req[1].retrieval.embed = "ok"
  /\ Len(req[1].retrieval.matches) > MAX_CONTEXT_CHUNKS
  /\ Len(req[1].snippets) = MAX_CONTEXT_CHUNKS
  /\ req[1].promptMessages # <<>>

\* A model stream with a line that is not JSON, or that ends in a read error.
Disturbed(rq) ==
  \/ rq.sourceEnd = "errored"
  \/ \E line \in Range(SplitLines[Flatten(rq.upstream)]) :
       Trim[line] # <<>> /\ ~ParseJson[Trim[line]].ok

\* What is still to come on the client's copy of the model stream.
ClientAhead(rq) == Flatten(rq.clientQ) \o Flatten(rq.source)

\* C31: when the model stream has a malformed line or ends in a read error,
\* the client still receives the context line and the model bytes unaltered,
\* no step of the capture changes what the client has received or is still
\* to receive, and the reply the capture ends with, and stores, is the
\* concatenation of the fragments that parsed.
C31_CaptureFailuresLeaveClientStream ==
  /\ [](\A r \in Requests :
          req[r].cap # "none" /\ Disturbed(req[r]) =>
            LET outbound == ContextLine(req[r].snippets) \o Flatten(req[r].upstream)
                reply == NdjsonReply(Flatten(req[r].upstream),
                                     req[r].sourceEnd = "closed")
            IN  /\ IsPrefix(req[r].clientOut, outbound)
                /\ req[r].client \in {"ended", "errored"} => req[r].clientOut = outbound
                /\ req[r].cap \in {"appending", "done"} => req[r].fullResponse = reply
                /\ req[r].capResult = "stored" =>
                     [role |-> "assistant", content |-> reply]
                       \in Range(StoredMessages(req[r].sessionId)))
  /\ [][\A r \in Requests :
          /\ req[r].cap # "none"
          /\ req[r].client # "cancelled"
          /\ \/ req'[r].capSeen # req[r].capSeen
             \/ req'[r].cap # req[r].cap
             \/ req'[r].fullResponse # req[r].fullResponse
          => /\ req'[r].client = req[r].client
             /\ req'[r].clientOut = req[r].clientOut
             /\ req'[r].ctxSent = req[r].ctxSent
             /\ ClientAhead(req'[r]) = ClientAhead(req[r])]_vars

\* A reply stored from a stream whose first line is not JSON, all of whose
\* bytes the client received.
C31_Witness ==
  /\ req[1].capResult = "stored"
  /\ Disturbed(req[1])
  /\ req[1].upstream[1][1] = "x"
  /\ req[1].fullResponse = <<"a", " ">>
  /\ req[1].client = "ended"
  /\ req[1].clientOut = Flatten(req[1].upstream)

\* A successful upload of a text file alone, whose trimmed content is
\* shorter than a chunk.
ShortTextFileUploaded(rq) ==
  /\ Uploaded(rq)
  /\ rq.doc.body.multipart /\ rq.doc.body.file.present
  /\ FileKind(rq.doc.body.file) = "text-file"
  /\ ~(rq.doc.body.text.t = "string" /\ Trim[rq.doc.body.text.v] # <<>>)
  /\ Len(Trim[rq.doc.body.file.text]) < CHUNK_SIZE

Min(a, b) == IF a < b THEN a ELSE b

\* The offsets 0, step, 2 * step, ... up to and including the first whose
\* window of the given size reaches or passes the end of a text of the given
\* length.
WindowOffsets(length, size, step) ==
  LET last == CHOOSE k \in 0..length :
                /\ k * step + size >= length
                /\ \A j \in 0..(k - 1) : j * step + size < length
  IN  [k \in 1..(last + 1) |-> (k - 1) * step]

\* The windows of a text at those offsets, each trimmed, without the empty
\* ones.
TrimmedWindows(text, size, step) ==
  LET offsets == WindowOffsets(Len(text), size, step)
      windows == [k \in 1..Len(offsets) |->
                    Trim[SubSeq(text, offsets[k] + 1,
                                Min(offsets[k] + size, Len(text)))]]
  IN  SelectSeq(windows, LAMBDA window : window # <<>>)

\* C33: for every text, size >= 1 and overlap >= 0, the chunks of chunkText
\* are the windows of the normalized text of length size at the offsets 0,
\* step, 2 * step, ... with step = max(1, size - overlap), each trimmed, the
\* empty ones dropped, up to the first window that reaches or passes the end
\* of the text and no more than MAX_DOC_CHUNKS of them.
C33_ChunksAreSlidingWindows ==
  \A r \in Requests :
    Chunked(req[r]) =>
      LET normalized == Normalized(req[r].chunker.text)
          size == req[r].chunker.chunkSize
          step == IF size - req[r].chunker.overlap >= 1
                  THEN size - req[r].chunker.overlap ELSE 1
          windows == TrimmedWindows(normalized, size, step)
      IN  req[r].chunker.chunks =
            IF normalized = <<>> THEN <<>>
            ELSE SubSeq(windows, 1, Min(Len(windows), MAX_DOC_CHUNKS))

\* Windows that overlap, one of them blank and dropped.
C33_Witness ==
  /\ Chunked(req[1])
  /\ req[1].chunker.text = <<"a", " ", " ", "a", "a">>
  /\ req[1].chunker.chunkSize = 2 /\ req[1].chunker.overlap = 1
  /\ req[1].chunker.chunks = <<<<"a">>, <<"a">>, <<"a", "a">>>>

\* C39: chunkText terminates for every text, size >= 1 and overlap >= 0,
\* an overlap no smaller than the size included: its loop, once entered,
\* ends; it never makes more iterations than the normalized text has
\* characters; and what it returns is what ChunkText gives.
C39_ChunkLoopTerminates ==
  /\ [](\A r \in Requests :
          req[r].kind = "chunkText" =>
            /\ req[r].chunker.chunkSize >= 1 /\ req[r].chunker.overlap >= 0
            /\ req[r].chunker.step >= 1
            /\ req[r].chunker.iterations <= Len(req[r].chunker.normalized)
            /\ req[r].pc = "done" =>
                 req[r].chunker.chunks = ChunkText(req[r].chunker.text,
                                                   req[r].chunker.chunkSize,
                                                   req[r].chunker.overlap))
  /\ \A r \in Requests :
       (req[r].kind = "chunkText" /\ req[r].pc = "loop") ~> (req[r].pc = "done")

\* An overlap larger than the size: one iteration for each character.
C39_Witness ==
  /\ Chunked(req[1])
  /\ req[1].chunker.overlap > req[1].chunker.chunkSize
  /\ req[1].chunker.text = <<"a", "a", "a", "a", "a">>
  /\ req[1].chunker.iterations = 5
  /\ Len(req[1].chunker.chunks) = 5

\* The kinds a file matches, by its lower-cased MIME type or name.
TextLike(file) ==
  \/ StartsWith(ToLowerCase[file.mime], "text/")
  \/ \E ext \in {".txt", ".md", ".json", ".csv"} : EndsWith(ToLowerCase[file.name], ext)

PdfLike(file) ==
  \/ ToLowerCase[file.mime] = <<"application/pdf">>
  \/ EndsWith(ToLowerCase[file.name], ".pdf")

ImageLike(file) == StartsWith(ToLowerCase[file.mime], "image/")

\* An upload with a file, once handleDocumentUpload has read it.
FileUpload(rq) ==
  /\ rq.kind = "docs" /\ rq.pc # "idle"
  /\ rq.doc.body.multipart /\ rq.doc.body.file.present

\* The upload was answered with the given error message.
FailedWith(rq, message) ==
  /\ rq.pc = "done" /\ rq.status >= 400
  /\ rq.response.error.t = "string" /\ Head(rq.response.error.v) = message

\* The extraction model gave no text for the upload.
NothingExtracted(rq) ==
  ~(rq.doc.extraction.kind = "text" /\ Trim[rq.doc.extraction.text] # <<>>)

AppendsOf(r, role) ==
  IF req[r].sessionId \notin Sessions THEN {}
  ELSE {i \in 1..Len(log[req[r].sessionId]) :
          /\ log[req[r].sessionId][i].req = r
          /\ log[req[r].sessionId][i].message.role = role}

\* The completed appends of a request to the sessions it is not for.
AppendsElsewhere(r) ==
  {<<s, i>> \in Sessions \X (1..(2 * MaxRequests)) :
     /\ s # req[r].sessionId
     /\ i <= Len(log[s]) /\ log[s][i].req = r}

\* C35: a chat turn appends at most one user message and at most one
\* assistant message, both to its own session; it starts the append of its
\* assistant message only when the append of its user message is complete,
\* so the assistant message is never appended first; a step completes at
\* most one append.
C35_OneUserThenOneAssistantPerTurn ==
  /\ [](\A r \in Requests :
          /\ Cardinality(AppendsOf(r, "user")) <= 1
          /\ Cardinality(AppendsOf(r, "assistant")) <= 1
          /\ AppendsElsewhere(r) = {}
          /\ AppendsOf(r, "user") # {} =>
               log[req[r].sessionId][CHOOSE i \in AppendsOf(r, "user") : TRUE].message
                 = UserMessage(r)
          /\ \A j \in AppendsOf(r, "assistant") :
               \E i \in AppendsOf(r, "user") : i < j
          /\ req[r].cap # "none" => AppendsOf(r, "user") # {})
  /\ [][\A s \in Sessions :
          \/ log'[s] = log[s]
          \/ /\ Len(log'[s]) = Len(log[s]) + 1
             /\ SubSeq(log'[s], 1, Len(log[s])) = log[s]
             /\ \A o \in Sessions \ {s} : log'[o] = log[o]]_vars

\* Two turns of one session, both stored: the second turn's user message
\* was appended before the first turn's assistant message.
C35_Witness ==
  \E s \in Sessions :
    /\ Len(log[s]) = 4
    /\ req[1].sessionId = s /\ req[2].sessionId = s
    /\ log[s][1].req = 1 /\ log[s][1].message.role = "user"
    /\ log[s][2].req = 2 /\ log[s][2].message.role = "user"
    /\ log[s][3].req = 1 /\ log[s][3].message.role = "assistant"
    /\ log[s][4].req = 2 /\ log[s][4].message.role = "assistant"

\* A model stream the capture has read to its end.
Captured(rq) == rq.kind = "capture" /\ rq.pc = "done"

\* C36: the text captureAssistantResponse reconstructs from a model stream
\* is the same however the bytes of the stream are cut into chunks: it is the
\* text reconstructed from the stream delivered as one chunk, which is the
\* concatenation of the fragments of all the lines of the decoded stream, the
\* last line included when no newline ends it.
C36_CaptureIgnoresChunkBoundaries ==
  \A r \in Requests :
    Captured(req[r]) =>
      LET bytes == Flatten(req[r].upstream)
      IN  /\ req[r].fullResponse = CaptureLoop(<<bytes>>, <<>>, <<>>, <<>>)
          /\ req[r].fullResponse = NdjsonReply(Utf8Decode[bytes], TRUE)

\* A stream cut inside a character, inside a line and before a last line
\* that no newline ends.
C36_Witness ==
  /\ Captured(req[1])
  /\ req[1].upstream = << <<"{", "C3">>, <<"A9", "}", "\n", "{">>, <<"a", "}">> >>
  /\ req[1].fullResponse = <<"E9", "a">>

\* A POST /messages the session's object has answered.
Posted(rq) ==
  rq.kind = "session" /\ rq.pc = "done" /\ rq.line.method = "POST"
  /\ rq.line.path = <<"/messages">>

\* The messages a session holds that it did not hold at the start.
NewlyStored(s) ==
  {StoredMessages(s)[i] : i \in 1..Len(StoredMessages(s))} \ Range(prior[s])

\* C37: every message written to a session by an append has role user or
\* assistant and a string content. A POST /messages with no JSON body, no
\* message, a role other than user and assistant, or a content that is not
\* a string is answered 400 with a JSON error and leaves the storage of
\* every session as it was; every other one is answered 204 and its message
\* is the last the session holds.
C37_OnlyUserAndAssistantAreStored ==
  /\ [](\A s \in Sessions :
          /\ \A i \in 1..Len(log[s]) : log[s][i].message.role \in {"user", "assistant"}
          /\ storage[s].session.shape = "record" =>
               \A m \in NewlyStored(s) :
                 /\ m.role \in {"user", "assistant"}
                 /\ m \in Range(LogMessages(s)))
  /\ [](\A r \in Requests :
          Posted(req[r]) =>
            LET post == req[r].post
                refused == \/ ~post.json \/ ~post.present
                           \/ post.role \notin {"user", "assistant"}
                           \/ post.content.t # "string"
            IN  /\ refused => /\ req[r].status = 400
                              /\ req[r].response.type = "json"
                              /\ req[r].response.error.t = "string"
                /\ ~refused => req[r].status = 204)
  /\ [][\A r \in Requests :
          /\ ~Posted(req[r]) /\ Posted(req'[r])
          => IF req'[r].status = 400
             THEN storage' = storage /\ log' = log
             ELSE LET s == req'[r].sessionId
                      stored == storage'[s].session.messages
                  IN  /\ storage'[s].session.shape = "record"
                      /\ stored[Len(stored)] =
                           [role |-> req'[r].post.role,
                            content |-> req'[r].post.content.v]
                      /\ \A o \in Sessions \ {s} : storage'[o] = storage[o]]_vars

\* The system prompt posted as a system message was refused, after a user
\* message had been stored in the same session.
C37_Witness ==
  /\ Posted(req[1]) /\ req[1].status = 204 /\ req[1].post.role = "user"
  /\ Posted(req[2]) /\ req[2].status = 400 /\ req[2].post.role = "system"
  /\ req[2].post.content = Str(SYSTEM_PROMPT)
  /\ req[2].sessionId = req[1].sessionId
  /\ Len(log[req[1].sessionId]) = 1
  /\ StoredMessages(req[1].sessionId)[Len(StoredMessages(req[1].sessionId))]
       = [role |-> "user", content |-> <<"hi">>]

\* The requests that are for session s.
RequestsFor(s) == {r \in Requests : req[r].sessionId = s}

\* C38: a step of a chat turn or of a history read changes the stored
\* messages, model id and timestamps, and the log of appends, of no session
\* but the one the request is for, however the requests interleave; a session
\* no request was for holds what it held at the start.
C38_SessionsAreIsolated ==
  /\ [][\A s \in Sessions :
          (storage'[s] # storage[s] \/ log'[s] # log[s]) =>
            \E r \in RequestsFor(s) :
              /\ req[r].kind \in {"chat", "history"}
              /\ req'[r] # req[r]
              /\ \A o \in Requests \ {r} : req'[o] = req[o]]_vars
  /\ [](\A s \in Sessions :
          RequestsFor(s) = {} =>
            /\ log[s] = <<>>
            /\ GetSessionRecord(storage[s], now).record.messages = prior[s]
            /\ storage[s].session.shape = "record" =>
                 /\ storage[s].session.createdAt = 1
                 /\ storage[s].session.updatedAt = 1)

\* Two turns, one of session A and one of session B, have both run to the
\* end and each session holds the messages of its own turn only.
C38_Witness ==
  /\ req[1].sessionId = <<"A">> /\ req[2].sessionId = <<"B">>
  /\ req[1].capResult = "stored" /\ req[2].capResult = "stored"
  /\ Len(log[<<"A">>]) = 2 /\ Len(log[<<"B">>]) = 2
  /\ \A i \in 1..2 : log[<<"A">>][i].req = 1 /\ log[<<"B">>][i].req = 2
  /\ UserMessage(2) \notin Range(StoredMessages(<<"A">>))
  /\ UserMessage(1) \notin Range(StoredMessages(<<"B">>))

====
